---- MODULE Spec2Model ----
(***************************************************************************)
(* Model of the expense tracker's Reports component                        *)
(* (src/src/components/Reports.jsx): the committed / tentative date range, *)
(* the debounced fetch effect, fetchData and the reset-to-current-month    *)
(* date computation.                                                       *)
(*                                                                         *)
(* Dates are day numbers of a non-leap year (1 = Jan 1); NoDate is the     *)
(* empty string of an <input type="date">.  A Date object is an instant in *)
(* whole hours since Jan 1 00:00 UTC.  React state updates and the         *)
(* re-render that follows them are one atomic step.                        *)
(***************************************************************************)
EXTENDS Integers, Sequences, FiniteSets, TLC

\* ------------------------------------------------------------------ bounds
MaxTimers == 4
MaxLen == 2
MaxCats == 10
MaxNameLen == 5
MaxStoreCats == 2
MaxStoreTxs == 1
MaxRows == 2
MaxDeleteCalls == 3
MaxAppRows == 1
MaxUserActions == 1
TickMs == 400
FirstDay == 59
LastDay == 60

\* --------------------------------------------------------------- constants
DEBOUNCE_TIME == 800
HoursPerDay == 24
NoDate == 0
NoTimer == 0
NoKey == <<>>
NoRows == <<>>

\* ------------------------------------------------------ environment inputs
NowHours == {3, 21}
UtcOffsets == {-5, 7}
EditDates == {45, 60}
MonthLengths == <<31, 28, 31, 30, 31, 30, 31, 31, 30, 31, 30, 31>>

VARIABLES
  transactions,   \* displayed rows: NoRows or the rows of a fetched range
  loading,        \* loading flag
  dateRange,      \* committed range
  tempDateRange,  \* tentative range
  sameRef,        \* tempDateRange and dateRange are the same object
  fetchRef,       \* fetchRef.current: id of the last armed timer, or NoTimer
  lastFetchRef,   \* lastFetchRef.current: key of the last applied fetch
  timers,         \* pending setTimeout callbacks
  inflight,       \* fetchData calls awaiting the remote store
  nextTimerId,    \* next id setTimeout returns
  now,            \* the user's local calendar clock [day, hour]
  tz,             \* the user's UTC offset in hours
  sinceCommit,    \* ms since the committed range last changed (saturating)
  lastOp,         \* the last handler or callback that ran ("...Same": the
                  \* commit stored a new object with the old dates)
  lastSuccess,    \* key of the last fetch that returned data
  lastApplied,    \* id of the last fetch whose response was applied
  \* --- the aggregation views of Reports and the App dashboard summary
  stored,         \* the user's transaction rows in the remote store
  txList,         \* the fetched transaction records the views are built from
  chartType,      \* 'combined' | 'income' | 'expense'
  isMobile,       \* screenInfo.isMobile
  summary,        \* calculateSummary()
  pieChartData,   \* getCombinedPieChartData() or getTypePieChartData()
  barChartData,   \* getBarChartData()
  appSummary,     \* App: the dashboard summary state
  \* --- the fallback colour of a category name
  colorSeed,      \* the name last passed to getRandomColor
  colorOut,       \* the colour it returned
  colorPrev,      \* the colour the call before returned for the same name
  \* --- the remote store and the pages that write categories and rows to it
  catTable,       \* categories table: id -> [state, type]
  txTable,        \* transactions table: id -> [live, type, cat]
  form,           \* TransactionForm: formData, categories, loading
  formReq,        \* the save request of the form in flight, or NoReq
  cm,             \* CategoryManager: form state
  cmReq,          \* the category save request in flight, or NoReq
  cmDel,          \* CategoryManager: the handleDelete call in progress
  \* --- TransactionList and the rows of the signed-in user
  listed,         \* TransactionList: the ids of the transactions state
  rowTable,       \* the ids of the user's rows in the transactions table
  isDeleting,     \* TransactionList: isDeleting, NoRow for null
  delCalls,       \* handleDelete / handleDeleteAll calls waiting for the store
  reconciles,     \* checkRemainingTransactions calls: timer set, sent, served
  fetches,        \* fetchTransactions calls: timer set, sent, served
  nextCall,       \* number of the next delete call
  listLast,       \* what the last handler of the list did and showed
  \* --- App: session, loading gate, dashboard summary and user stats
  app,            \* App: its state and refs
  appTimers,      \* timers set by initializeApp and by the refresh effect
  appSessions,    \* getSession calls of initializeApp waiting for their answer
  appLoads,       \* calculateSummary / fetchUserStats pairs in progress
  appEvents,      \* auth events and onLogin callbacks not yet delivered
  appServer,      \* the auth session and the user's rows at the server
  appGhost        \* counts of effect runs and user actions; the unseen delete

coordVars == <<transactions, loading, dateRange, tempDateRange, sameRef,
               fetchRef, lastFetchRef, timers, inflight, nextTimerId, now, tz,
               sinceCommit, lastOp, lastSuccess, lastApplied>>

aggVars == <<stored, txList, chartType, isMobile, summary, pieChartData, barChartData,
             appSummary>>

colorVars == <<colorSeed, colorOut, colorPrev>>

storeVars == <<catTable, txTable, form, formReq, cm, cmReq, cmDel>>

listVars == <<listed, rowTable, isDeleting, delCalls, reconciles, fetches, nextCall,
              listLast>>

appVars == <<app, appTimers, appSessions, appLoads, appEvents, appServer, appGhost>>

pageVars == <<storeVars, listVars, appVars>>

vars == <<coordVars, aggVars, colorVars, pageVars>>

\* ------------------------------------------------------------ date helpers
RECURSIVE MonthStart(_)
\* day number of the first day of month m (1..12)
MonthStart(m) == IF m = 1 THEN 1 ELSE MonthStart(m - 1) + MonthLengths[m - 1]

\* getMonth() of a local day
MonthOf(day) ==
  CHOOSE m \in 1..12 : MonthStart(m) <= day /\ day < MonthStart(m) + MonthLengths[m]

\* new Date(y, m, d) at local midnight, as a UTC instant
LocalMidnight(day, offset) == (day - 1) * HoursPerDay - offset

\* new Date(): the current instant
CurrentInstant(n, offset) == (n.day - 1) * HoursPerDay + n.hour - offset

\* date.toISOString().split('T')[0]: the UTC calendar date of an instant
ISODate(instant) == (instant \div HoursPerDay) + 1

\* new Date(getFullYear(), getMonth(), 1).toISOString().split('T')[0]
FirstOfMonthISO(n, offset) ==
  ISODate(LocalMidnight(MonthStart(MonthOf(n.day)), offset))

\* new Date().toISOString().split('T')[0]
TodayISO(n, offset) == ISODate(CurrentInstant(n, offset))

CurrentMonthRange(n, offset) ==
  [start |-> FirstOfMonthISO(n, offset), end |-> TodayISO(n, offset)]

\* new Date('YYYY-MM-DD'): UTC midnight of that date, compared by < and >
ParseDate(d) == (d - 1) * HoursPerDay

\* `${start}-${end}`
FetchKey(start, end) == <<start, "-", end>>

\* rows the remote store returns for a range
Rows(start, end) == <<start, end>>

\* variant: the date controls are rendered even while loading
ControlsRenderedAlways == TRUE

\* the date controls exist only when the loading screen is not shown
ControlsRendered == ~loading

Min(a, b) == IF a < b THEN a ELSE b
Max(a, b) == IF a > b THEN a ELSE b

\* ------------------------------------------------------------------- Init
\* the fetch coordinator after mount
CoordInit ==
  /\ tz \in UtcOffsets
  /\ now \in [day : {FirstDay}, hour : NowHours]
  /\ transactions = NoRows
  /\ loading = TRUE
  /\ dateRange = CurrentMonthRange(now, tz)
  /\ tempDateRange = dateRange
  /\ sameRef = TRUE
  /\ lastFetchRef = NoKey
  /\ fetchRef = 1
  /\ timers = {[id |-> 1, start |-> dateRange.start, end |-> dateRange.end,
                remaining |-> DEBOUNCE_TIME, burst |-> 1, moved |-> 0]}
  /\ inflight = {}
  /\ nextTimerId = 2
  /\ sinceCommit = 0
  /\ lastOp = "mount"
  /\ lastSuccess = NoKey
  /\ lastApplied = 0

\* ------------------------------------------------- debounced fetch effect
\* variant: the effect arms a new timer without clearing the previous one
DateRangeEffectNoCleanup(r) ==
  IF lastFetchRef = FetchKey(r.start, r.end)
  THEN UNCHANGED <<timers, fetchRef, nextTimerId>>
  ELSE /\ timers' = timers \cup
              {[id |-> nextTimerId, start |-> r.start, end |-> r.end,
                remaining |-> DEBOUNCE_TIME, burst |-> 1, moved |-> 0]}
       /\ fetchRef' = nextTimerId
       /\ nextTimerId' = nextTimerId + 1

\* variant: the effect does not compare the key with lastFetchRef
DateRangeEffectNoSuppress(r) ==
  /\ timers' = {t \in timers : t.id # fetchRef} \cup
        {[id |-> nextTimerId, start |-> r.start, end |-> r.end,
          remaining |-> DEBOUNCE_TIME, burst |-> 1, moved |-> 0]}
  /\ fetchRef' = nextTimerId
  /\ nextTimerId' = nextTimerId + 1

\* cleanup of the previous run followed by the effect body for range r
DateRangeEffect(r) ==
  LET cleaned == IF fetchRef # NoTimer
                 THEN {t \in timers : t.id # fetchRef}
                 ELSE timers
      \* bookkeeping, not program state: burst = commits of the burst this
      \* one belongs to (each arrived less than DEBOUNCE_TIME after the one
      \* before), moved = those of them that replaced a different range
      superseded == {t \in timers : t.remaining > 0}
      last == CHOOSE t \in superseded : TRUE
      burst == IF superseded = {} THEN 1 ELSE 1 + last.burst
      moved == IF superseded = {} THEN 0
               ELSE IF last.start = r.start /\ last.end = r.end THEN last.moved
               ELSE 1 + last.moved
  IN IF lastFetchRef = FetchKey(r.start, r.end)
     THEN /\ timers' = cleaned
          /\ UNCHANGED <<fetchRef, nextTimerId>>
     ELSE /\ timers' = cleaned \cup
                 {[id |-> nextTimerId, start |-> r.start, end |-> r.end,
                   remaining |-> DEBOUNCE_TIME, burst |-> burst,
                   moved |-> moved]}
          /\ fetchRef' = nextTimerId
          /\ nextTimerId' = nextTimerId + 1

\* ---------------------------------------------------------------- actions
\* variant: editing a field also stores the edit as the committed range
handleDateChangeCommits(type, value) ==
  /\ ControlsRendered
  /\ tempDateRange' = [tempDateRange EXCEPT ![type] = value]
  /\ dateRange' = tempDateRange'
  /\ sameRef' = TRUE
  /\ lastOp' = "edit"
  /\ UNCHANGED <<transactions, loading, fetchRef, lastFetchRef, timers,
                 inflight, nextTimerId, now, tz, sinceCommit, lastSuccess,
                 lastApplied>>
  /\ UNCHANGED <<aggVars, colorVars, pageVars>>

\* variant: an edit that inverts the range is stored without snapping
handleDateChangeNoSnap(type, value) ==
  /\ ControlsRendered
  /\ tempDateRange' = [tempDateRange EXCEPT ![type] = value]
  /\ sameRef' = FALSE
  /\ lastOp' = "edit"
  /\ UNCHANGED <<transactions, loading, dateRange, fetchRef, lastFetchRef,
                 timers, inflight, nextTimerId, now, tz, sinceCommit,
                 lastSuccess, lastApplied>>
  /\ UNCHANGED <<aggVars, colorVars, pageVars>>

\* variant: an edit that would invert the range is rejected
handleDateChangeRejects(type, value) ==
  /\ ControlsRendered
  /\ LET edited == [tempDateRange EXCEPT ![type] = value]
         inverted == /\ edited.start # NoDate /\ edited.end # NoDate
                     /\ ParseDate(edited.start) > ParseDate(edited.end)
     IN /\ tempDateRange' = IF inverted THEN tempDateRange ELSE edited
        /\ lastOp' = IF inverted THEN "editSnap" ELSE "edit"
  /\ sameRef' = FALSE
  /\ UNCHANGED <<transactions, loading, dateRange, fetchRef, lastFetchRef,
                 timers, inflight, nextTimerId, now, tz, sinceCommit,
                 lastSuccess, lastApplied>>
  /\ UNCHANGED <<aggVars, colorVars, pageVars>>

handleDateChange(type, value) ==
  /\ ControlsRendered
  /\ LET edited == [tempDateRange EXCEPT ![type] = value]
         snapStart == /\ type = "end"
                      /\ edited.start # NoDate /\ value # NoDate
                      /\ ParseDate(value) < ParseDate(edited.start)
         snapEnd == /\ type = "start"
                    /\ edited.end # NoDate /\ value # NoDate
                    /\ ParseDate(value) > ParseDate(edited.end)
     IN /\ tempDateRange' = IF snapStart THEN [edited EXCEPT !.start = value]
                            ELSE IF snapEnd THEN [edited EXCEPT !.end = value]
                            ELSE edited
        /\ lastOp' = IF snapStart \/ snapEnd THEN "editSnap" ELSE "edit"
  /\ sameRef' = FALSE
  /\ UNCHANGED <<transactions, loading, dateRange, fetchRef, lastFetchRef,
                 timers, inflight, nextTimerId, now, tz, sinceCommit,
                 lastSuccess, lastApplied>>
  /\ UNCHANGED <<aggVars, colorVars, pageVars>>

applyDateFilter ==
  /\ ControlsRendered
  /\ nextTimerId <= MaxTimers
  /\ IF tempDateRange.start = NoDate \/ tempDateRange.end = NoDate \/ sameRef
     THEN /\ lastOp' = "applyIgnored"
          /\ UNCHANGED <<dateRange, sameRef, timers, fetchRef, nextTimerId,
                         sinceCommit>>
     ELSE /\ dateRange' = tempDateRange
          /\ sameRef' = TRUE
          /\ sinceCommit' = 0
          /\ lastOp' = IF tempDateRange = dateRange THEN "applySame" ELSE "apply"
          /\ DateRangeEffect(tempDateRange)
  /\ UNCHANGED <<transactions, loading, tempDateRange, lastFetchRef, inflight,
                 now, tz, lastSuccess, lastApplied>>
  /\ UNCHANGED <<aggVars, colorVars, pageVars>>

resetToCurrentMonth ==
  /\ ControlsRendered
  /\ nextTimerId <= MaxTimers
  /\ LET newDateRange == CurrentMonthRange(now, tz)
     IN /\ lastOp' = IF newDateRange = dateRange THEN "resetSame" ELSE "reset"
        /\ tempDateRange' = newDateRange
        /\ dateRange' = newDateRange
        /\ DateRangeEffect(newDateRange)
  /\ sameRef' = TRUE
  /\ sinceCommit' = 0
  /\ UNCHANGED <<transactions, loading, lastFetchRef, inflight, now, tz,
                 lastSuccess, lastApplied>>
  /\ UNCHANGED <<aggVars, colorVars, pageVars>>

\* variant: fetchData does not raise the loading flag
TimerFireKeepsControls(t) ==
  /\ t \in timers
  /\ t.remaining = 0
  /\ timers' = timers \ {t}
  /\ inflight' = inflight \cup
        {[id |-> t.id, start |-> t.start, end |-> t.end, stage |-> "auth",
          burst |-> t.burst, moved |-> t.moved]}
  /\ lastOp' = "fire"
  /\ UNCHANGED <<transactions, loading, dateRange, tempDateRange, sameRef,
                 fetchRef, lastFetchRef, nextTimerId, now, tz, sinceCommit,
                 lastSuccess, lastApplied>>
  /\ UNCHANGED <<aggVars, colorVars, pageVars>>

\* the debounce timer elapses and calls fetchData up to its first await
TimerFire(t) ==
  /\ t \in timers
  /\ t.remaining = 0
  /\ timers' = timers \ {t}
  /\ loading' = TRUE
  /\ inflight' = inflight \cup
        {[id |-> t.id, start |-> t.start, end |-> t.end, stage |-> "auth",
          burst |-> t.burst, moved |-> t.moved]}
  /\ lastOp' = "fire"
  /\ UNCHANGED <<transactions, dateRange, tempDateRange, sameRef, fetchRef,
                 lastFetchRef, nextTimerId, now, tz, sinceCommit, lastSuccess,
                 lastApplied>>
  /\ UNCHANGED <<aggVars, colorVars, pageVars>>

\* supabase.auth.getUser() settles; with no user, user.id throws
FetchAuthResolve(f, hasUser) ==
  /\ f \in inflight
  /\ f.stage = "auth"
  /\ IF hasUser
     THEN /\ inflight' = (inflight \ {f}) \cup {[f EXCEPT !.stage = "query"]}
          /\ lastOp' = "auth"
          /\ UNCHANGED loading
     ELSE /\ inflight' = inflight \ {f}
          /\ loading' = FALSE
          /\ lastOp' = "failed"
  /\ UNCHANGED <<transactions, dateRange, tempDateRange, sameRef, fetchRef,
                 lastFetchRef, timers, nextTimerId, now, tz, sinceCommit,
                 lastSuccess, lastApplied>>
  /\ UNCHANGED <<aggVars, colorVars, pageVars>>

\* the query settles: rows, an error result (data = null), or a rejection
FetchQueryResolve(f, outcome) ==
  /\ f \in inflight
  /\ f.stage = "query"
  /\ inflight' = inflight \ {f}
  /\ loading' = FALSE
  /\ CASE outcome = "data" ->
            /\ transactions' = Rows(f.start, f.end)
            /\ lastFetchRef' = FetchKey(f.start, f.end)
            /\ lastSuccess' = FetchKey(f.start, f.end)
            /\ lastApplied' = f.id
            /\ lastOp' = "loaded"
       [] outcome = "error" ->
            /\ transactions' = NoRows
            /\ lastFetchRef' = FetchKey(f.start, f.end)
            /\ lastApplied' = f.id
            /\ lastOp' = "failed"
            /\ UNCHANGED lastSuccess
       [] outcome = "throw" ->
            /\ lastOp' = "failed"
            /\ UNCHANGED <<transactions, lastFetchRef, lastSuccess, lastApplied>>
  /\ UNCHANGED <<dateRange, tempDateRange, sameRef, fetchRef, timers,
                 nextTimerId, now, tz, sinceCommit>>
  /\ UNCHANGED <<aggVars, colorVars, pageVars>>

\* time passes
Tick ==
  /\ \/ sinceCommit < DEBOUNCE_TIME
     \/ \E t \in timers : t.remaining > 0
  /\ timers' = {[t EXCEPT !.remaining = Max(0, t.remaining - TickMs)] : t \in timers}
  /\ sinceCommit' = Min(DEBOUNCE_TIME, sinceCommit + TickMs)
  /\ UNCHANGED <<transactions, loading, dateRange, tempDateRange, sameRef,
                 fetchRef, lastFetchRef, inflight, nextTimerId, now, tz,
                 lastOp, lastSuccess, lastApplied>>
  /\ UNCHANGED <<aggVars, colorVars, pageVars>>

\* the wall clock moves to a later hour or to the next day
AdvanceCalendar ==
  /\ \E n \in [day : FirstDay..LastDay, hour : NowHours] :
        /\ \/ n.day = now.day /\ n.hour > now.hour
           \/ n.day = now.day + 1
        /\ now' = n
  /\ UNCHANGED <<transactions, loading, dateRange, tempDateRange, sameRef,
                 fetchRef, lastFetchRef, timers, inflight, nextTimerId, tz,
                 sinceCommit, lastOp, lastSuccess, lastApplied>>
  /\ UNCHANGED <<aggVars, colorVars, pageVars>>

\* ======================================================================
\* Aggregation views (calculateSummary, getCombinedPieChartData,
\* getTypePieChartData, getBarChartData) and the fallback colour.
\*
\* A JavaScript number is [nan, v]: NaN, or the integer v.  Strings that the
\* code inspects by character (category names) are sequences of UTF-16 code
\* units.
\* ======================================================================
Num(n) == [nan |-> FALSE, v |-> n]
NaN == [nan |-> TRUE, v |-> 0]

JsAdd(a, b) == IF a.nan \/ b.nan THEN NaN ELSE Num(a.v + b.v)
JsSub(a, b) == IF a.nan \/ b.nan THEN NaN ELSE Num(a.v - b.v)
\* a > b: false when either side is NaN
JsGt(a, b) == ~a.nan /\ ~b.nan /\ a.v > b.v
JsAbs(a) == IF a.nan THEN NaN ELSE Num(IF a.v < 0 THEN -a.v ELSE a.v)

\* an amount column value: a number (or numeric text), or non-numeric text
Amt(n) == [text |-> FALSE, v |-> n]
BadAmt == [text |-> TRUE, v |-> 0]

\* parseFloat(transaction.amount)
ParseFloat(raw) == IF raw.text THEN NaN ELSE Num(raw.v)

\* a quotient num/den kept exact; nan when an operand was NaN
Quot(num, den) == [nan |-> FALSE, num |-> num, den |-> den]
QuotNaN == [nan |-> TRUE, num |-> 0, den |-> 1]
RECURSIVE Gcd(_, _)
Gcd(a, b) == IF b = 0 THEN a ELSE Gcd(b, a % b)
\* a quotient in lowest terms (a zero denominator stays: an infinity)
Lowest(q) ==
  LET g == Gcd(IF q.num < 0 THEN -q.num ELSE q.num, q.den)
  IN IF g = 0 THEN q ELSE [nan |-> q.nan, num |-> q.num \div g, den |-> q.den \div g]
\* the two quotients are the same number
QuotEq(a, b) == a.nan = b.nan /\ (~a.nan => Lowest(a) = Lowest(b))

\* (x).toFixed(2) of a non-negative quotient, in hundredths
ToFixed2(num, den) == (200 * num + den) \div (2 * den)

\* variant: the savings rate is guarded by income >= 0
SavingsRateGuardGE(income, expense) ==
  IF ~income.nan /\ income.v >= 0
  THEN IF expense.nan THEN QuotNaN
       ELSE Quot((income.v - expense.v) * 100, income.v)
  ELSE Quot(0, 1)

\* income > 0 ? ((income - expense) / income * 100) : 0
SavingsRate(income, expense) ==
  IF JsGt(income, Num(0))
  THEN IF expense.nan THEN QuotNaN
       ELSE Quot((income.v - expense.v) * 100, income.v)
  ELSE Quot(0, 1)

\* expense > 0 ? (income / expense).toFixed(2) : 'inf'
Ratio(income, expense) ==
  IF JsGt(expense, Num(0))
  THEN IF income.nan THEN [kind |-> "NaN", hundredths |-> 0]
       ELSE [kind |-> "fixed", hundredths |-> ToFixed2(income.v, expense.v)]
  ELSE [kind |-> "infinite", hundredths |-> 0]

RECURSIVE SumOfType(_, _, _)
\* the forEach accumulation of one of the two sums: isIncome selects the
\* branch transaction.type === 'income', otherwise the else branch
SumOfType(txs, i, isIncome) ==
  IF i = 0 THEN Num(0)
  ELSE LET rest == SumOfType(txs, i - 1, isIncome)
       IN IF (txs[i].type = "income") = isIncome
          THEN JsAdd(rest, ParseFloat(txs[i].amount))
          ELSE rest

CountOfType(txs, isIncome) ==
  Cardinality({i \in 1..Len(txs) : (txs[i].type = "income") = isIncome})

\* variant: total is reported as income + expense
calculateSummarySumsTotal(txs) ==
  LET income == SumOfType(txs, Len(txs), TRUE)
      expense == SumOfType(txs, Len(txs), FALSE)
  IN [income |-> income, expense |-> expense, total |-> JsAdd(income, expense),
      incomeCount |-> CountOfType(txs, TRUE),
      expenseCount |-> CountOfType(txs, FALSE),
      savingsRate |-> SavingsRate(income, expense),
      ratio |-> Ratio(income, expense)]

\* Reports: calculateSummary
calculateSummary(txs) ==
  LET income == SumOfType(txs, Len(txs), TRUE)
      expense == SumOfType(txs, Len(txs), FALSE)
  IN [income |-> income, expense |-> expense, total |-> JsSub(income, expense),
      incomeCount |-> CountOfType(txs, TRUE),
      expenseCount |-> CountOfType(txs, FALSE),
      savingsRate |-> SavingsRate(income, expense),
      ratio |-> Ratio(income, expense)]

\* App: the summary calculateSummary stores for the rows it read
AppSummaryOf(txs) ==
  LET income == SumOfType(txs, Len(txs), TRUE)
      expense == SumOfType(txs, Len(txs), FALSE)
  IN [income |-> income, expense |-> expense, total |-> JsSub(income, expense)]


\* ------------------------------------------------------- names and colours
EmptyName == <<>>
\* 'Uncategorized'
Uncategorized == <<85, 110, 99, 97, 116, 101, 103, 111, 114, 105, 122, 101, 100>>
\* 'Other'
Other == <<79, 116, 104, 101, 114>>
\* '...'
Ellipsis == <<46, 46, 46>>
OtherColor == "#94a3b8"
NoColor == ""
Palette == <<"#3b82f6", "#ef4444", "#10b981", "#f59e0b", "#8b5cf6",
             "#ec4899", "#14b8a6", "#f97316", "#6366f1", "#84cc16">>

\* A double holding an integer x, |x| < 2^33, as [hi, lo] with
\* x = hi * 2^16 + lo and 0 <= lo < 2^16.
Word == 65536
HalfWord == 32768
Limbs(hi, lo) == [hi |-> hi + (lo \div Word), lo |-> lo % Word]

\* ToInt32: the operand of << wraps into [-2^31, 2^31)
ToInt32(x) ==
  LET h == x.hi % Word
  IN [hi |-> IF h >= HalfWord THEN h - Word ELSE h, lo |-> x.lo]

\* hash << 5
Shl5(x) == LET w == ToInt32(x) IN ToInt32(Limbs(w.hi * 32, w.lo * 32))

\* seed.charCodeAt(i) + ((hash << 5) - hash)
HashStep(hash, code) ==
  LET sh == Shl5(hash) IN Limbs(sh.hi - hash.hi, sh.lo - hash.lo + code)

RECURSIVE HashOf(_, _)
\* the value of hash after the first i characters of seed (the value so far
\* is bound before the step is applied to it)
HashOf(seed, i) ==
  IF i = 0 THEN Limbs(0, 0)
  ELSE CHOOSE next \in {HashStep(hash, seed[i]) : hash \in {HashOf(seed, i - 1)}} :
         TRUE

\* Math.abs(hash)
AbsLimbs(x) == IF x.hi < 0 THEN Limbs(-x.hi, -x.lo) ELSE x

\* the remainder x % m of a JavaScript number (sign of the dividend)
JsRem(x, m) ==
  LET a == AbsLimbs(x)
      r == (((a.hi % m) * (Word % m)) + a.lo) % m
  IN IF x.hi < 0 THEN -r ELSE r

\* colors[k]: undefined outside the array
ColorAt(k) == IF k \in 0..Len(Palette) - 1 THEN Palette[k + 1] ELSE "undefined"

\* variant: the index is hash % colors.length without Math.abs
getRandomColorNoAbs(seed) ==
  ColorAt(JsRem(HashOf(seed, Len(seed)), Len(Palette)))

\* getRandomColor(seed)
getRandomColor(seed) ==
  ColorAt(JsRem(AbsLimbs(HashOf(seed, Len(seed))), Len(Palette)))

\* ------------------------------------------------------ category buckets
\* transaction.categories of a row without a category
NullCategory == [null |-> TRUE]
Category(name, color) == [name |-> name, color |-> color]

HasCategory(t) == t.categories # NullCategory

\* transaction.categories.name || 'Uncategorized'
CategoryNameOf(t) ==
  IF t.categories.name = EmptyName THEN Uncategorized ELSE t.categories.name

\* transaction.categories.color || getRandomColor(categoryName)
CategoryColorOf(t) ==
  IF t.categories.color = NoColor THEN getRandomColor(CategoryNameOf(t))
  ELSE t.categories.color

\* position of the Map entry of a name, 0 when the Map has none
EntryOf(buckets, key) ==
  IF \E k \in 1..Len(buckets) : buckets[k].key = key
  THEN CHOOSE k \in 1..Len(buckets) : buckets[k].key = key
  ELSE 0

\* Array.prototype.sort with a comparator that orders by descending Key:
\* a stable sort
SortDesc(items, Key(_)) ==
  LET n == Len(items)
      before(i) == Cardinality({j \in 1..n :
                      \/ Key(items[j]) > Key(items[i])
                      \/ Key(items[j]) = Key(items[i]) /\ j < i})
  IN [p \in 1..n |-> items[CHOOSE i \in 1..n : before(i) = p - 1]]

\* Array.prototype.filter
FilterSeq(items, Keep(_)) == SelectSeq(items, Keep)

\* Array.from(map.values())
ValuesOf(entries) == [k \in 1..Len(entries) |-> entries[k].val]

\* --- getCombinedPieChartData
\* one iteration of the forEach over the Map entries
CombinedStep(entries, t) ==
  IF ~HasCategory(t) THEN entries
  ELSE LET name == CategoryNameOf(t)
           amount == ParseFloat(t.amount)
           k0 == EntryOf(entries, name)
           withNew ==
             IF k0 # 0 THEN entries
             ELSE Append(entries,
                    [key |-> name,
                     val |-> [name |-> name, income |-> Num(0),
                              expense |-> Num(0), total |-> Num(0),
                              color |-> CategoryColorOf(t), count |-> 0]])
           k == IF k0 # 0 THEN k0 ELSE Len(withNew)
           c == withNew[k].val
       IN [withNew EXCEPT ![k].val =
             [c EXCEPT !.income = IF t.type = "income"
                                  THEN JsAdd(c.income, amount) ELSE c.income,
                       !.expense = IF t.type = "income"
                                   THEN c.expense ELSE JsAdd(c.expense, amount),
                       !.total = JsAdd(c.total, amount),
                       !.count = c.count + 1]]

RECURSIVE CombinedEntries(_, _)
CombinedEntries(txs, i) ==
  IF i = 0 THEN <<>> ELSE CombinedStep(CombinedEntries(txs, i - 1), txs[i])

PositiveTotal(item) == JsGt(item.total, Num(0))
TotalKey(item) == item.total.v

WithChartFields(item) ==
  [name |-> item.name, income |-> item.income, expense |-> item.expense,
   total |-> item.total, color |-> item.color, count |-> item.count,
   value |-> item.total, displayName |-> item.name,
   type |-> IF JsGt(item.income, item.expense) THEN "income" ELSE "expense"]

getCombinedPieChartData(txs) ==
  LET kept == FilterSeq(ValuesOf(CombinedEntries(txs, Len(txs))), PositiveTotal)
      mapped == [k \in 1..Len(kept) |-> WithChartFields(kept[k])]
  IN SortDesc(mapped, TotalKey)

\* --- getTypePieChartData
\* variant: rows of every type are collected
TypeStepAnyType(entries, t, mode) ==
  IF ~HasCategory(t) THEN entries
  ELSE LET name == CategoryNameOf(t)
           amount == ParseFloat(t.amount)
           k0 == EntryOf(entries, name)
           withNew ==
             IF k0 # 0 THEN entries
             ELSE Append(entries,
                    [key |-> name,
                     val |-> [name |-> name, value |-> Num(0),
                              color |-> CategoryColorOf(t), count |-> 0,
                              type |-> mode]])
           k == IF k0 # 0 THEN k0 ELSE Len(withNew)
           c == withNew[k].val
       IN [withNew EXCEPT ![k].val =
             [c EXCEPT !.value = JsAdd(c.value, amount),
                       !.count = c.count + 1]]

TypeStep(entries, t, mode) ==
  IF ~(t.type = mode /\ HasCategory(t)) THEN entries
  ELSE LET name == CategoryNameOf(t)
           amount == ParseFloat(t.amount)
           k0 == EntryOf(entries, name)
           withNew ==
             IF k0 # 0 THEN entries
             ELSE Append(entries,
                    [key |-> name,
                     val |-> [name |-> name, value |-> Num(0),
                              color |-> CategoryColorOf(t), count |-> 0,
                              type |-> mode]])
           k == IF k0 # 0 THEN k0 ELSE Len(withNew)
           c == withNew[k].val
       IN [withNew EXCEPT ![k].val =
             [c EXCEPT !.value = JsAdd(c.value, amount),
                       !.count = c.count + 1]]

RECURSIVE TypeEntries(_, _, _)
TypeEntries(txs, i, mode) ==
  IF i = 0 THEN <<>> ELSE TypeStep(TypeEntries(txs, i - 1, mode), txs[i], mode)

PositiveValue(item) == JsGt(item.value, Num(0))
ValueKey(item) == item.value.v

\* variant: the buckets are neither filtered nor sorted
TypeBucketsAsCollected(txs, mode) ==
  ValuesOf(TypeEntries(txs, Len(txs), mode))

\* the sorted buckets before any merging (result)
TypeBuckets(txs, mode) ==
  SortDesc(FilterSeq(ValuesOf(TypeEntries(txs, Len(txs), mode)), PositiveValue),
           ValueKey)

\* screenInfo.isMobile ? 5 : 8 and screenInfo.isMobile ? 4 : 7
Threshold(mobile) == IF mobile THEN 5 ELSE 8
KeepCount(mobile) == IF mobile THEN 4 ELSE 7

RECURSIVE SumValues(_, _)
\* otherCategories.reduce((sum, cat) => sum + cat.value, 0)
SumValues(items, i) ==
  IF i = 0 THEN Num(0) ELSE JsAdd(SumValues(items, i - 1), items[i].value)

RECURSIVE SumCounts(_, _)
\* otherCategories.reduce((sum, cat) => sum + cat.count, 0)
SumCounts(items, i) ==
  IF i = 0 THEN 0 ELSE SumCounts(items, i - 1) + items[i].count

\* variant: merging starts at the threshold itself
MergeOtherAtThreshold(result, mode, mobile) ==
  IF Len(result) >= Threshold(mobile)
  THEN LET mainCategories == SubSeq(result, 1, KeepCount(mobile))
           otherCategories == SubSeq(result, KeepCount(mobile) + 1, Len(result))
       IN Append(mainCategories,
                 [name |-> Other,
                  value |-> SumValues(otherCategories, Len(otherCategories)),
                  color |-> OtherColor,
                  count |-> SumCounts(otherCategories, Len(otherCategories)),
                  type |-> mode])
  ELSE result

\* variant: the count of "Other" is the number of merged buckets
MergeOtherCountsBuckets(result, mode, mobile) ==
  IF Len(result) > Threshold(mobile)
  THEN LET mainCategories == SubSeq(result, 1, KeepCount(mobile))
           otherCategories == SubSeq(result, KeepCount(mobile) + 1, Len(result))
       IN Append(mainCategories,
                 [name |-> Other,
                  value |-> SumValues(otherCategories, Len(otherCategories)),
                  color |-> OtherColor,
                  count |-> Len(otherCategories),
                  type |-> mode])
  ELSE result

\* the tail of getTypePieChartData: merge the buckets past the keep-count
MergeOther(result, mode, mobile) ==
  IF Len(result) > Threshold(mobile)
  THEN LET mainCategories == SubSeq(result, 1, KeepCount(mobile))
           otherCategories == SubSeq(result, KeepCount(mobile) + 1, Len(result))
       IN Append(mainCategories,
                 [name |-> Other,
                  value |-> SumValues(otherCategories, Len(otherCategories)),
                  color |-> OtherColor,
                  count |-> SumCounts(otherCategories, Len(otherCategories)),
                  type |-> mode])
  ELSE result

getTypePieChartData(txs, mode, mobile) ==
  MergeOther(TypeBuckets(txs, mode), mode, mobile)

\* chartType === 'combined' ? getCombinedPieChartData() : getTypePieChartData()
PieChartDataOf(txs, mode, mobile) ==
  IF mode = "combined" THEN getCombinedPieChartData(txs)
  ELSE getTypePieChartData(txs, mode, mobile)

\* --- getBarChartData
\* categoryName.length > 15 ? categoryName.substring(0, 12) + '...' : categoryName
BarName(name) == IF Len(name) > 15 THEN SubSeq(name, 1, 12) \o Ellipsis ELSE name

BarStep(entries, t) ==
  IF ~HasCategory(t) THEN entries
  ELSE LET name == CategoryNameOf(t)
           amount == ParseFloat(t.amount)
           k0 == EntryOf(entries, name)
           withNew ==
             IF k0 # 0 THEN entries
             ELSE Append(entries,
                    [key |-> name,
                     val |-> [name |-> BarName(name), income |-> Num(0),
                              expense |-> Num(0), net |-> Num(0)]])
           k == IF k0 # 0 THEN k0 ELSE Len(withNew)
           c == withNew[k].val
           income == IF t.type = "income" THEN JsAdd(c.income, amount) ELSE c.income
           expense == IF t.type = "income" THEN c.expense ELSE JsAdd(c.expense, amount)
       IN [withNew EXCEPT ![k].val =
             [c EXCEPT !.income = income, !.expense = expense,
                       !.net = JsSub(income, expense)]]

RECURSIVE BarEntries(_, _)
BarEntries(txs, i) ==
  IF i = 0 THEN <<>> ELSE BarStep(BarEntries(txs, i - 1), txs[i])

HasMoney(item) == JsGt(item.income, Num(0)) \/ JsGt(item.expense, Num(0))
AbsNetKey(item) == JsAbs(item.net).v

BarKept(txs) == FilterSeq(ValuesOf(BarEntries(txs, Len(txs))), HasMoney)

\* .slice(0, 8)
TopEight(items) == SubSeq(items, 1, Min(8, Len(items)))

\* every order of the items: what sort may return when its comparator
\* yields NaN
Orderings(items) ==
  LET n == Len(items)
  IN {[p \in 1..n |-> items[f[p]]] :
        f \in {g \in [1..n -> 1..n] : \A a, b \in 1..n : a # b => g[a] # g[b]}}

\* variant: the first 8 categories in Map order, not sorted
getBarChartDataResultsAsCollected(txs) == {TopEight(BarKept(txs))}

\* the results getBarChartData can return: the stable sort by descending
\* |net|, or, when a net is NaN, any order
getBarChartDataResults(txs) ==
  LET kept == BarKept(txs)
  IN IF \E k \in 1..Len(kept) : kept[k].net.nan
     THEN {TopEight(o) : o \in Orderings(kept)}
     ELSE {TopEight(SortDesc(kept, AbsNetKey))}

\* ------------------------------------------------ aggregation: the inputs
Types == {"income", "expense"}
ChartTypes == {"combined", "income", "expense"}
\* window.innerWidth on either side of the mobile breakpoint
ScreenWidths == {768, 769}

Tx(cat, type, amount) == [categories |-> cat, type |-> type, amount |-> amount]

\* 'Food' with a colour of its own, a category row without name and colour,
\* and no category
Food == Category(<<70, 111, 111, 100>>, "#ef4444")
Unnamed == Category(EmptyName, NoColor)
SmallCats == {Food, Unnamed, NullCategory}
SmallAmounts == {Amt(1), Amt(2)}
SmallTxs == {Tx(c, ty, a) : c \in SmallCats, ty \in Types, a \in SmallAmounts}

SeqsUpTo(S, n) == UNION {[1..k -> S] : k \in 0..n}

\* the category 'Cnn' of a many-category list
WideCat(i) == Category(<<67, 48 + (i \div 10), 48 + (i % 10)>>, NoColor)

WideAmount(pattern, n, i) ==
  CASE pattern = "ascending" -> i
    [] pattern = "descending" -> n + 1 - i
    [] pattern = "ties" -> 1 + (i % 2)

WideType(pattern, i) ==
  CASE pattern = "alternating" -> IF i % 2 = 0 THEN "income" ELSE "expense"
    [] OTHER -> pattern

RECURSIVE WideList(_, _, _, _)
\* rows of the categories 1..i of n: one row per category, two for every
\* third category
WideList(n, i, amounts, types) ==
  IF i = 0 THEN <<>>
  ELSE LET row == Tx(WideCat(i), WideType(types, i),
                     Amt(WideAmount(amounts, n, i)))
       IN WideList(n, i - 1, amounts, types)
            \o (IF i % 3 = 0 THEN <<row, row>> ELSE <<row>>)

WideLists ==
  {WideList(n, n, amounts, types) :
     n \in 1..MaxCats,
     amounts \in {"ascending", "descending", "ties"},
     types \in {"income", "expense", "alternating"}}

\* income 1000000 with expenses 300000 and 200000
ExampleList == <<Tx(Food, "income", Amt(1000000)),
                 Tx(Food, "expense", Amt(300000)),
                 Tx(Unnamed, "expense", Amt(200000))>>

\* lists of rows as the forms save them: a positive numeric amount
\* a category, another one, and the first again, with any types and with
\* amounts that tie or are 0
RevisitLists ==
  {<<Tx(ab[1], t1, x), Tx(ab[2], t2, y), Tx(ab[1], t3, z)>> :
     ab \in {<<Food, Unnamed>>, <<Unnamed, Food>>},
     t1 \in Types, t2 \in Types, t3 \in Types,
     x \in {Amt(0), Amt(1)}, y \in {Amt(0), Amt(1)}, z \in {Amt(0), Amt(1)}}

ValidLists ==
  SeqsUpTo(SmallTxs, MaxLen) \cup WideLists \cup RevisitLists \cup {ExampleList}

\* rows whose amount column may hold non-numeric text
Rent == Category(<<82, 101, 110, 116>>, "#3b82f6")
RawTxs == {Tx(c, ty, a) : c \in {Food, Rent}, ty \in Types,
                          a \in {Amt(1), BadAmt}}
RawLists == SeqsUpTo(RawTxs, MaxLen)

\* names passed to getRandomColor: 'A', 'z' and the largest code unit
NameCodes == {65, 122, 65535}
Names == SeqsUpTo(NameCodes, MaxNameLen)

\* ------------------------------------------- aggregation: state and steps
\* Reports and App after mount, before any rows arrived
AggInit(lists) ==
  /\ stored \in lists
  /\ txList = <<>>
  /\ chartType = "combined"
  /\ isMobile = FALSE
  /\ summary = calculateSummary(<<>>)
  /\ pieChartData = PieChartDataOf(<<>>, "combined", FALSE)
  /\ barChartData \in getBarChartDataResults(<<>>)
  /\ appSummary = [income |-> Num(0), expense |-> Num(0), total |-> Num(0)]

ColorInit(names) ==
  /\ colorSeed \in names
  /\ colorOut = NoColor
  /\ colorPrev = NoColor

\* ------------------------------------------- the store: tables and requests
CatIds == 1..MaxStoreCats
TxIds == 1..MaxStoreTxs
\* category_id '' / null, and a form that edits no row
NoCat == 0
NoTx == 0
NoReq == [kind |-> "none"]

\* the categories a select('*') on the table returns: id -> type, "none" for
\* an id that has no row
CategoryRowsOfStore ==
  [c \in CatIds |-> IF catTable[c].state = "live" THEN catTable[c].type ELSE "none"]
\* categories = []
NoCategories == [c \in CatIds |-> "none"]

\* an id the store has not given out yet
FreeCatIds == {c \in CatIds : catTable[c].state = "none"}
FreeTxIds == {t \in TxIds : ~txTable[t].live}
NewId(free) == CHOOSE i \in free : \A j \in free : i <= j

\* TransactionForm is not shown
FormClosed ==
  [open |-> FALSE, variant |-> "validating", editing |-> NoTx,
   type |-> "expense", cat |-> NoCat, categories |-> NoCategories,
   fetching |-> FALSE, loading |-> FALSE]

\* CategoryManager: the form after setFormData({name: '', type: 'expense', ...})
CmFormReset(version) ==
  [version |-> version, showForm |-> FALSE, editing |-> NoCat, type |-> "expense"]

CmDelIdle == [phase |-> "idle", cat |-> NoCat, result |-> "none"]

\* a store with one expense category and no rows, and the two pages mounted
StoreInit(versions) ==
  /\ catTable = [c \in CatIds |->
               [state |-> IF c = 1 THEN "live" ELSE "none", type |-> "expense"]]
  /\ txTable = [t \in TxIds |-> [live |-> FALSE, type |-> "expense", cat |-> NoCat]]
  /\ form = FormClosed
  /\ formReq = NoReq
  /\ \E version \in versions : cm = CmFormReset(version)
  /\ cmReq = NoReq
  /\ cmDel = CmDelIdle

StoreRest == <<coordVars, aggVars, colorVars, listVars, appVars>>

\* --- TransactionForm
\* App shows the form for a new row (tx = NoTx) or for a row of the list;
\* the mount effect copies the row into formData and calls fetchCategories
TransactionFormMount(variant, tx, carriesCategory) ==
  /\ ~form.open
  /\ formReq = NoReq
  /\ IF tx = NoTx THEN FreeTxIds # {} ELSE txTable[tx].live
  /\ form' = [open |-> TRUE, variant |-> variant, editing |-> tx,
              type |-> IF tx = NoTx THEN "expense" ELSE txTable[tx].type,
              cat |-> IF tx = NoTx \/ ~carriesCategory THEN NoCat ELSE txTable[tx].cat,
              categories |-> NoCategories, fetching |-> TRUE, loading |-> FALSE]
  /\ UNCHANGED <<catTable, txTable, formReq, cm, cmReq, cmDel>>
  /\ UNCHANGED StoreRest

\* fetchCategories gets its answer; the validating form then preselects a
\* category for a new row
FormFetchCategoriesResolve(ok, pick) ==
  /\ form.open /\ form.fetching
  /\ LET data == IF ok THEN CategoryRowsOfStore ELSE NoCategories
         expense == {c \in CatIds : data[c] = "expense"}
         any == {c \in CatIds : data[c] # "none"}
     IN IF form.variant = "validating"
        THEN IF form.editing = NoTx /\ any # {}
             THEN /\ pick \in (IF expense # {} THEN expense ELSE any)
                  /\ form' = [form EXCEPT
                       !.categories = data, !.fetching = FALSE,
                       !.cat = pick,
                       !.type = IF expense # {} THEN form.type ELSE data[pick]]
             ELSE /\ pick = NoCat
                  /\ form' = [form EXCEPT !.categories = data, !.fetching = FALSE]
        ELSE /\ pick = NoCat
             /\ form' = [form EXCEPT
                  !.categories = IF ok THEN data ELSE form.categories,
                  !.fetching = FALSE]
  /\ UNCHANGED <<catTable, txTable, formReq, cm, cmReq, cmDel>>
  /\ UNCHANGED StoreRest

\* the categories the select offers: those of the form's type
FormOptions == {c \in CatIds : form.categories[c] = form.type}

\* handleInputChange / handleChange
FormHandleInputChange(name, value, pick) ==
  /\ form.open /\ ~form.loading
  /\ IF name = "type"
     THEN /\ value \in Types
          /\ LET filtered == {c \in CatIds : form.categories[c] = value}
             IN IF form.variant = "validating"
                THEN /\ pick \in (IF filtered # {} THEN filtered ELSE {NoCat})
                     /\ form' = [form EXCEPT !.type = value, !.cat = pick]
                ELSE /\ pick = NoCat
                     /\ form' = [form EXCEPT !.type = value]
     ELSE /\ value \in FormOptions \cup {NoCat}
          /\ pick = NoCat
          /\ form' = [form EXCEPT !.cat = value]
  /\ UNCHANGED <<catTable, txTable, formReq, cm, cmReq, cmDel>>
  /\ UNCHANGED StoreRest

\* validateForm of the validating form; the plain form checks the amount only
FormValid(amountOk) ==
  IF form.variant = "validating"
  THEN /\ amountOk
       /\ form.cat # NoCat
       /\ form.categories[form.cat] # "none"
       /\ form.categories[form.cat] = form.type
  ELSE amountOk

\* handleSubmit up to the request
FormHandleSubmit(amountOk) ==
  /\ form.open /\ ~form.loading /\ formReq = NoReq
  /\ form.variant = "validating" => FormOptions # {}
  /\ IF FormValid(amountOk)
     THEN /\ form' = [form EXCEPT !.loading = TRUE]
          /\ formReq' = [kind |-> "save", tx |-> form.editing,
                         type |-> form.type, cat |-> form.cat]
     ELSE UNCHANGED <<form, formReq>>
  /\ UNCHANGED <<catTable, txTable, cm, cmReq, cmDel>>
  /\ UNCHANGED StoreRest

\* the insert or update reaches the store and handleSubmit finishes
FormSaveResolve(ok) ==
  /\ formReq # NoReq
  /\ IF ok
     THEN /\ txTable' = IF formReq.tx = NoTx
                    THEN [txTable EXCEPT ![NewId(FreeTxIds)] =
                            [live |-> TRUE, type |-> formReq.type, cat |-> formReq.cat]]
                    ELSE IF txTable[formReq.tx].live
                         THEN [txTable EXCEPT ![formReq.tx] =
                                 [live |-> TRUE, type |-> formReq.type,
                                  cat |-> formReq.cat]]
                         ELSE txTable
          /\ form' = FormClosed
     ELSE /\ txTable' = txTable
          /\ form' = [form EXCEPT !.loading = FALSE]
  /\ formReq' = NoReq
  /\ UNCHANGED <<catTable, cm, cmReq, cmDel>>
  /\ UNCHANGED StoreRest

\* onCancel
FormCancel ==
  /\ form.open /\ ~form.loading
  /\ form' = FormClosed
  /\ UNCHANGED <<catTable, txTable, formReq, cm, cmReq, cmDel>>
  /\ UNCHANGED StoreRest

\* --- CategoryManager
CmVersions == {"early", "late"}

\* the Add Category button: setShowForm(true)
CmNewCategory ==
  /\ ~cm.showForm /\ cmReq = NoReq
  /\ cm' = [cm EXCEPT !.showForm = TRUE]
  /\ UNCHANGED <<catTable, txTable, form, formReq, cmReq, cmDel>>
  /\ UNCHANGED StoreRest

\* handleEdit on a row of the category list
CmHandleEdit(category) ==
  /\ cmReq = NoReq
  /\ catTable[category].state = "live"
  /\ cm' = [cm EXCEPT !.showForm = TRUE, !.editing = category,
                      !.type = catTable[category].type]
  /\ UNCHANGED <<catTable, txTable, form, formReq, cmReq, cmDel>>
  /\ UNCHANGED StoreRest

\* the type select of the category form
CmHandleInputChange(value) ==
  /\ cm.showForm /\ cmReq = NoReq
  /\ cm' = [cm EXCEPT !.type = value]
  /\ UNCHANGED <<catTable, txTable, form, formReq, cmReq, cmDel>>
  /\ UNCHANGED StoreRest

\* handleSubmit up to the request: the name is checked, the type is not
CmHandleSubmit(nameOk) ==
  /\ cm.showForm /\ cmReq = NoReq
  /\ cm.editing = NoCat => FreeCatIds # {}
  /\ cmReq' = IF nameOk
              THEN [kind |-> "save", cat |-> cm.editing, type |-> cm.type]
              ELSE NoReq
  /\ UNCHANGED <<catTable, txTable, form, formReq, cm, cmDel>>
  /\ UNCHANGED StoreRest

\* what the update or insert of handleSubmit writes to the categories table
CmSavedTable ==
  IF cmReq.cat = NoCat
  THEN [catTable EXCEPT ![NewId(FreeCatIds)] = [state |-> "live", type |-> cmReq.type]]
  ELSE IF catTable[cmReq.cat].state = "live"
       THEN [catTable EXCEPT ![cmReq.cat].type = cmReq.type]
       ELSE catTable

\* the request of handleSubmit is answered
CmSaveResolve(ok) ==
  /\ cmReq # NoReq
  /\ IF ok
     THEN /\ catTable' = CmSavedTable
          /\ cm' = CmFormReset(cm.version)
     ELSE UNCHANGED <<catTable, cm>>
  /\ cmReq' = NoReq
  /\ UNCHANGED <<txTable, form, formReq, cmDel>>
  /\ UNCHANGED StoreRest

\* handleCancel: the early version only hides the form
CmHandleCancel ==
  /\ cm.showForm /\ cmReq = NoReq
  /\ cm' = IF cm.version = "early"
           THEN [cm EXCEPT !.showForm = FALSE]
           ELSE CmFormReset(cm.version)
  /\ UNCHANGED <<catTable, txTable, form, formReq, cmReq, cmDel>>
  /\ UNCHANGED StoreRest

\* the rows of the transactions table that reference a category
RowsOfCategory(category) ==
  {t \in TxIds : txTable[t].live /\ txTable[t].cat = category}

\* handleDelete: the usage check is sent
CmHandleDelete(category) ==
  /\ cmDel.phase = "idle"
  /\ catTable[category].state = "live"
  /\ cmDel' = [phase |-> "checking", cat |-> category, result |-> "none"]
  /\ UNCHANGED <<catTable, txTable, form, formReq, cm, cmReq>>
  /\ UNCHANGED StoreRest

\* the store answers the usage check
CmDeleteCheckServed(fails) ==
  /\ cmDel.phase = "checking"
  /\ cmDel' = [cmDel EXCEPT
       !.phase = "served",
       !.result = IF fails THEN "error"
                  ELSE IF RowsOfCategory(cmDel.cat) # {} THEN "used" ELSE "unused"]
  /\ UNCHANGED <<catTable, txTable, form, formReq, cm, cmReq>>
  /\ UNCHANGED StoreRest

\* whether handleDelete goes on to the confirm dialog with this answer: the
\* later version throws on checkError, the early one does not read it
CmAsksConfirm(version, result) ==
  \/ result = "unused"
  \/ result = "error" /\ version = "early"

\* handleDelete continues with the answer: alert, or confirm and the delete
CmDeleteCheckResolve(confirmed) ==
  /\ cmDel.phase = "served"
  /\ cmDel' = IF CmAsksConfirm(cm.version, cmDel.result) /\ confirmed
              THEN [cmDel EXCEPT !.phase = "deleting"]
              ELSE CmDelIdle
  /\ UNCHANGED <<catTable, txTable, form, formReq, cm, cmReq>>
  /\ UNCHANGED StoreRest

\* the delete is answered
CmDeleteResolve(ok) ==
  /\ cmDel.phase = "deleting"
  /\ catTable' = IF ok /\ catTable[cmDel.cat].state = "live"
                 THEN [catTable EXCEPT ![cmDel.cat].state = "deleted"]
                 ELSE catTable
  /\ cmDel' = CmDelIdle
  /\ UNCHANGED <<txTable, form, formReq, cm, cmReq>>
  /\ UNCHANGED StoreRest

FormVariants == {"validating", "plain"}

StoreNext ==
  \/ \E variant \in FormVariants, tx \in TxIds \cup {NoTx}, carries \in BOOLEAN :
       TransactionFormMount(variant, tx, carries)
  \/ \E ok \in BOOLEAN, pick \in CatIds \cup {NoCat} : FormFetchCategoriesResolve(ok, pick)
  \/ \E value \in Types, pick \in CatIds \cup {NoCat} :
       FormHandleInputChange("type", value, pick)
  \/ \E value \in CatIds \cup {NoCat} : FormHandleInputChange("category_id", value, NoCat)
  \/ \E amountOk \in BOOLEAN : FormHandleSubmit(amountOk)
  \/ \E ok \in BOOLEAN : FormSaveResolve(ok)
  \/ FormCancel
  \/ CmNewCategory
  \/ \E category \in CatIds : CmHandleEdit(category)
  \/ \E value \in Types : CmHandleInputChange(value)
  \/ \E nameOk \in BOOLEAN : CmHandleSubmit(nameOk)
  \/ \E ok \in BOOLEAN : CmSaveResolve(ok)
  \/ CmHandleCancel
  \/ \E category \in CatIds : CmHandleDelete(category)
  \/ \E fails \in BOOLEAN : CmDeleteCheckServed(fails)
  \/ \E confirmed \in BOOLEAN : CmDeleteCheckResolve(confirmed)
  \/ \E ok \in BOOLEAN : CmDeleteResolve(ok)

\* the store and its pages left alone
StoreParked == StoreInit({"late"})

\* ------------------------------------------------------ TransactionList
RowIds == 1..MaxRows
\* isDeleting = null
NoRow == 0
DeleteFailedNotice == "Delete failed. Try again."
DeleteAllFailedNotice == "Delete all failed. Try again."
NoNotice == ""

\* the list is mounted over a table of rows; the load effect has set its timer
ListInit(tables) ==
  /\ listed = {}
  /\ rowTable \in tables
  /\ isDeleting = NoRow
  /\ delCalls = {}
  /\ reconciles = {}
  /\ fetches = {[phase |-> "timer", ok |-> TRUE, data |-> {}]}
  /\ nextCall = 1
  /\ listLast = [op |-> "mount", id |-> NoRow, confirmed |-> FALSE, refetch |-> FALSE,
                 count |-> 0, alert |-> NoNotice]

ListRest == <<coordVars, aggVars, colorVars, storeVars, appVars>>

\* the 100 ms timer of the load effect calls fetchTransactions
LoadTimerFires(f) ==
  /\ f \in fetches /\ f.phase = "timer"
  /\ fetches' = (fetches \ {f}) \cup {[f EXCEPT !.phase = "sent"]}
  /\ UNCHANGED <<listed, rowTable, isDeleting, delCalls, reconciles, nextCall, listLast>>
  /\ UNCHANGED ListRest

\* the store answers the select of fetchTransactions
FetchServed(f, fails) ==
  /\ f \in fetches /\ f.phase = "sent"
  /\ fetches' = (fetches \ {f}) \cup
       {[phase |-> "served", ok |-> ~fails, data |-> IF fails THEN {} ELSE rowTable]}
  /\ UNCHANGED <<listed, rowTable, isDeleting, delCalls, reconciles, nextCall, listLast>>
  /\ UNCHANGED ListRest

\* fetchTransactions continues: setTransactions(data || []) unless it failed
FetchResolve(f) ==
  /\ f \in fetches /\ f.phase = "served"
  /\ listed' = IF f.ok THEN f.data ELSE listed
  /\ fetches' = fetches \ {f}
  /\ UNCHANGED <<rowTable, isDeleting, delCalls, reconciles, nextCall, listLast>>
  /\ UNCHANGED ListRest

\* the Delete button of a row is rendered enabled
DeleteEnabled(id) == id \in listed /\ isDeleting # id

\* the delete requests handleDelete sends when window.confirm returned
\* `confirmed`, as the render of the click sees the list
DeleteRequests(id, confirmed) ==
  IF confirmed
  THEN {[call |-> nextCall, kind |-> "one", id |-> id, phase |-> "sent",
         len |-> Cardinality(listed)]}
  ELSE {}

\* handleDelete up to the request
HandleDelete(id, confirmed) ==
  /\ DeleteEnabled(id)
  /\ nextCall <= MaxDeleteCalls
  /\ delCalls' = delCalls \cup DeleteRequests(id, confirmed)
  /\ isDeleting' = IF DeleteRequests(id, confirmed) # {} THEN id ELSE isDeleting
  /\ nextCall' = IF DeleteRequests(id, confirmed) # {} THEN nextCall + 1 ELSE nextCall
  /\ listLast' = [op |-> "handleDelete", id |-> id, confirmed |-> confirmed,
                  refetch |-> FALSE, count |-> 0, alert |-> NoNotice]
  /\ UNCHANGED <<listed, rowTable, reconciles, fetches>>
  /\ UNCHANGED ListRest

\* handleDeleteAll up to the request
HandleDeleteAll(confirmed) ==
  /\ listed # {}
  /\ nextCall <= MaxDeleteCalls
  /\ delCalls' = IF confirmed
                 THEN delCalls \cup {[call |-> nextCall, kind |-> "all", id |-> NoRow,
                                      phase |-> "sent", len |-> Cardinality(listed)]}
                 ELSE delCalls
  /\ nextCall' = IF confirmed THEN nextCall + 1 ELSE nextCall
  /\ listLast' = [op |-> "handleDeleteAll", id |-> NoRow, confirmed |-> confirmed,
                  refetch |-> FALSE, count |-> 0, alert |-> NoNotice]
  /\ UNCHANGED <<listed, rowTable, isDeleting, reconciles, fetches>>
  /\ UNCHANGED ListRest

\* the store carries out, or rejects, the delete
DeleteServed(c, fails) ==
  /\ c \in delCalls /\ c.phase = "sent"
  /\ delCalls' = (delCalls \ {c}) \cup {[c EXCEPT !.phase = IF fails THEN "error" ELSE "ok"]}
  /\ rowTable' = IF fails THEN rowTable
                 ELSE IF c.kind = "all" THEN {} ELSE rowTable \ {c.id}
  /\ UNCHANGED <<listed, isDeleting, reconciles, fetches, nextCall, listLast>>
  /\ UNCHANGED ListRest

\* variant: the row is taken off the list whatever the answer
ListedAfterAnyAnswer(c) ==
  IF c.kind = "all" THEN {} ELSE listed \ {c.id}

\* the list a handler shows after its delete was answered
ListedAfter(c) ==
  IF c.phase = "ok"
  THEN IF c.kind = "all" THEN {} ELSE listed \ {c.id}
  ELSE listed

\* the length checkRemainingTransactions compares with: transactions.length of
\* the render whose handleDelete was clicked
ComparedLength(c) == c.len

\* handleDelete / handleDeleteAll continue with the answer
DeleteResolve(c) ==
  /\ c \in delCalls /\ c.phase # "sent"
  /\ delCalls' = delCalls \ {c}
  /\ listed' = ListedAfter(c)
  /\ reconciles' = IF c.kind = "one" /\ c.phase = "ok"
                   THEN reconciles \cup
                          {[call |-> c.call, phase |-> "timer", len |-> ComparedLength(c),
                            ok |-> TRUE, count |-> 0]}
                   ELSE reconciles
  /\ isDeleting' = IF c.kind = "one" THEN NoRow ELSE isDeleting
  /\ listLast' = [op |-> "deleteDone", id |-> c.id, confirmed |-> TRUE, refetch |-> FALSE,
                  count |-> 0,
                  alert |-> IF c.phase = "ok" THEN NoNotice
                            ELSE IF c.kind = "one" THEN DeleteFailedNotice
                            ELSE DeleteAllFailedNotice]
  /\ UNCHANGED <<rowTable, fetches, nextCall>>
  /\ UNCHANGED ListRest

\* the 500 ms timer calls checkRemainingTransactions
ReconcileTimerFires(r) ==
  /\ r \in reconciles /\ r.phase = "timer"
  /\ reconciles' = (reconciles \ {r}) \cup {[r EXCEPT !.phase = "sent"]}
  /\ UNCHANGED <<listed, rowTable, isDeleting, delCalls, fetches, nextCall, listLast>>
  /\ UNCHANGED ListRest

\* the store answers the select('id') of checkRemainingTransactions
ReconcileServed(r, fails) ==
  /\ r \in reconciles /\ r.phase = "sent"
  /\ reconciles' = (reconciles \ {r}) \cup
       {[r EXCEPT !.phase = "served", !.ok = ~fails,
                  !.count = IF fails THEN 0 ELSE Cardinality(rowTable)]}
  /\ UNCHANGED <<listed, rowTable, isDeleting, delCalls, fetches, nextCall, listLast>>
  /\ UNCHANGED ListRest

\* data?.length !== transactions.length
Mismatch(r) == r.ok /\ r.count # r.len

\* checkRemainingTransactions continues: fetchTransactions() on a mismatch
ReconcileResolve(r) ==
  /\ r \in reconciles /\ r.phase = "served"
  /\ reconciles' = reconciles \ {r}
  /\ fetches' = IF Mismatch(r)
                THEN fetches \cup {[phase |-> "sent", ok |-> TRUE, data |-> {}]}
                ELSE fetches
  /\ listLast' = [op |-> "reconcile", id |-> NoRow, confirmed |-> FALSE,
                  refetch |-> Mismatch(r), count |-> r.count, alert |-> NoNotice]
  /\ UNCHANGED <<listed, rowTable, isDeleting, delCalls, nextCall>>
  /\ UNCHANGED ListRest

ListNext ==
  \/ \E f \in fetches : LoadTimerFires(f)
  \/ \E f \in fetches, fails \in BOOLEAN : FetchServed(f, fails)
  \/ \E f \in fetches : FetchResolve(f)
  \/ \E id \in RowIds, confirmed \in BOOLEAN : HandleDelete(id, confirmed)
  \/ \E confirmed \in BOOLEAN : HandleDeleteAll(confirmed)
  \/ \E c \in delCalls, fails \in BOOLEAN : DeleteServed(c, fails)
  \/ \E c \in delCalls : DeleteResolve(c)
  \/ \E r \in reconciles : ReconcileTimerFires(r)
  \/ \E r \in reconciles, fails \in BOOLEAN : ReconcileServed(r, fails)
  \/ \E r \in reconciles : ReconcileResolve(r)

\* the list over an empty table, left alone after its first load
ListParked == ListInit({{}})

\* ------------------------------------------------------------------ App
\* session = null; the session of the one user
NoSession == 0
UserSession == 1

\* the rows of the user at the server: `n` expense rows of amount 1
RowsOf(n) == [i \in 1..n |-> Tx(NullCategory, "expense", Amt(1))]

\* setSummary({ total: 0, income: 0, expense: 0 })
ZeroSummary == [income |-> Num(0), expense |-> Num(0), total |-> Num(0)]
\* setUserStats({ transactionCount: 0, categoryCount: 0, daysActive: 0 })
ZeroStats == [transactionCount |-> 0, categoryCount |-> 0, daysActive |-> 0]

\* what fetchUserStats sets from its three answers: a failed count is read
\* as 0, and daysActive is 1 for rows dated today or no rows
StatsOf(ok, n) ==
  [transactionCount |-> IF ok THEN n ELSE 0,
   categoryCount |-> IF ok THEN 1 ELSE 0,
   daysActive |-> 1]

\* the loading screen of the gate: loading && initialLoad
LoadingScreen == app.loading /\ app.initialLoad
\* the gate shows AuthForm
AuthFormShown == ~LoadingScreen /\ app.session = NoSession
\* the gate shows the dashboard with the list
DashboardShown == ~LoadingScreen /\ app.session # NoSession

\* variant: initializeApp sets no fallback timers
InitializeTimersNone(run, closureLoading) == {}

\* the two fallback timers initializeApp sets; the 300 ms one keeps the
\* `loading` of the render of its effect, and is left out when that is false
\* because its callback then does nothing
InitializeTimers(run, closureLoading) ==
  {[kind |-> "t800", run |-> run, loading |-> closureLoading]}
  \cup (IF closureLoading
        THEN {[kind |-> "t300", run |-> run, loading |-> closureLoading]}
        ELSE {})

\* the refresh effect runs its body: a 50 ms timer for a signed-in user
\* after the first load
RefreshTimers(a) ==
  IF a.session # NoSession /\ ~a.initialLoad
  THEN {[kind |-> "refresh", run |-> 0, loading |-> FALSE]}
  ELSE {}

\* the dependencies of the two effects changed between the renders
SessionEffectRuns(a) == a.loading # app.loading
RefreshEffectRuns(a) ==
  \/ a.session # app.session
  \/ a.refreshTrigger # app.refreshTrigger
  \/ a.initialLoad # app.initialLoad

\* a pair calculateSummary(userId), fetchUserStats(userId); `final` when it
\* is the Promise.all of initializeApp with its finally callback
NewLoad(final) == [final |-> final, summary |-> "sent", stats |-> "sent"]

\* the dashboard shows the summary and the count of the rows at the server
DashboardAgrees(a, server) ==
  /\ a.summary = AppSummaryOf(RowsOf(server.rows))
  /\ a.userStats.transactionCount = server.rows

\* React commits the new state `a` and runs the effects whose dependencies
\* changed: the session effect cleans up (mountedRef false, unsubscribe) and
\* runs again (mountedRef true, initializeApp, subscribe); the refresh effect
\* clears its timer and sets it again
Commit(a, pending, calls, g) ==
  /\ app' = a
  /\ appTimers' =
       (IF RefreshEffectRuns(a) THEN {t \in pending : t.kind # "refresh"} ELSE pending)
       \cup (IF SessionEffectRuns(a) THEN InitializeTimers(g.runs + 1, a.loading) ELSE {})
       \cup (IF RefreshEffectRuns(a) THEN RefreshTimers(a) ELSE {})
  /\ appSessions' =
       calls \cup (IF SessionEffectRuns(a) THEN {[run |-> g.runs + 1]} ELSE {})
  /\ appGhost' =
       [g EXCEPT !.runs = IF SessionEffectRuns(a) THEN @ + 1 ELSE @,
                 !.runsSinceLogin = IF SessionEffectRuns(a) THEN @ + 1 ELSE @,
                 !.unseen = /\ g.unseen
                            /\ a.session # NoSession
                            /\ ~DashboardAgrees(a, appServer')]

\* App is mounted and the session effect has run once, as in a production
\* build, where StrictMode does not run effects twice
AppInit(servers) ==
  /\ app = [session |-> NoSession, loading |-> TRUE, initialLoad |-> TRUE,
            summary |-> ZeroSummary, userStats |-> ZeroStats, refreshTrigger |-> 0,
            currentSessionRef |-> NoSession, mountedRef |-> TRUE]
  /\ appTimers = InitializeTimers(1, TRUE)
  /\ appSessions = {[run |-> 1]}
  /\ appLoads = {}
  /\ appEvents = {}
  /\ appServer \in servers
  /\ appGhost = [runs |-> 1, runsSinceLogin |-> 1, userActions |-> 0, unseen |-> FALSE]

AppRest == <<coordVars, aggVars, colorVars, storeVars, listVars>>

\* --- timers
\* a fallback timer is due when no timer that must fire before it is
\* pending: timers of one delay fire in the order they were set, and the
\* 300 ms timer of an initializeApp call fires before its 800 ms timer
Due(t) ==
  \A u \in appTimers :
    \/ u.kind = "refresh"
    \/ u.run > t.run
    \/ u.run = t.run /\ (u = t \/ u.kind = "t800")
    \/ u.run < t.run /\ u.kind = "t800" /\ t.kind = "t300"

\* the 800 ms fallback of initializeApp
T800Fires(t) ==
  /\ t \in appTimers /\ t.kind = "t800"
  /\ Due(t)
  /\ UNCHANGED <<appLoads, appEvents, appServer>>
  /\ Commit(IF app.mountedRef
            THEN [app EXCEPT !.loading = FALSE, !.initialLoad = FALSE]
            ELSE app,
            appTimers \ {t}, appSessions, appGhost)
  /\ UNCHANGED AppRest

\* the 300 ms fallback: if (mountedRef.current && loading) setLoading(false)
T300Fires(t) ==
  /\ t \in appTimers /\ t.kind = "t300"
  /\ Due(t)
  /\ UNCHANGED <<appLoads, appEvents, appServer>>
  /\ Commit(IF app.mountedRef /\ t.loading THEN [app EXCEPT !.loading = FALSE] ELSE app,
            appTimers \ {t}, appSessions, appGhost)
  /\ UNCHANGED AppRest

\* the 50 ms timer of the refresh effect calls the pair
RefreshTimerFires(t) ==
  /\ t \in appTimers /\ t.kind = "refresh"
  /\ appLoads' = appLoads \cup {NewLoad(FALSE)}
  /\ UNCHANGED <<appEvents, appServer>>
  /\ Commit(app, appTimers \ {t}, appSessions, appGhost)
  /\ UNCHANGED AppRest

\* --- initializeApp
\* the session getSession reads from the auth client
StoredSession == IF appServer.signedIn THEN UserSession ELSE NoSession

\* getSession answers and initializeApp continues after the await, or it
\* throws and initializeApp continues in its catch block
GetSessionResolve(q, fails) ==
  /\ q \in appSessions
  /\ UNCHANGED <<appEvents, appServer>>
  /\ IF fails
     THEN /\ appLoads' = appLoads
          /\ Commit(IF app.mountedRef
                    THEN [app EXCEPT !.loading = FALSE, !.initialLoad = FALSE]
                    ELSE app,
                    appTimers, appSessions \ {q}, appGhost)
     ELSE IF ~app.mountedRef
     THEN /\ appLoads' = appLoads
          /\ Commit(app, appTimers, appSessions \ {q}, appGhost)
     ELSE LET cleared == {t \in appTimers : ~(t.kind = "t800" /\ t.run = q.run)}
          IN IF StoredSession # NoSession
             THEN /\ appLoads' = appLoads \cup {NewLoad(TRUE)}
                  /\ Commit([app EXCEPT !.session = StoredSession,
                                        !.currentSessionRef = StoredSession],
                            cleared, appSessions \ {q}, appGhost)
             ELSE /\ appLoads' = appLoads
                  /\ Commit([app EXCEPT !.session = NoSession,
                                        !.currentSessionRef = NoSession,
                                        !.loading = FALSE, !.initialLoad = FALSE],
                            cleared, appSessions \ {q}, appGhost)
  /\ UNCHANGED AppRest

\* --- calculateSummary and fetchUserStats
\* whether calculateSummary writes its answer to the state: a failed select
\* throws, and only mountedRef is looked at
SummaryApplies(ok) == ok /\ app.mountedRef

\* whether fetchUserStats writes its answers to the state
StatsApply == app.mountedRef

\* the pairs in progress after one call of the pair `l` has returned; a pair
\* whose two calls have returned is over
LoadsAfter(l, done) ==
  (appLoads \ {l}) \cup
  (IF done.summary = "done" /\ done.stats = "done" THEN {} ELSE {done})

\* the finally callback of the Promise.all of initializeApp, run when the
\* second call of its pair has returned
Finally(l, done, a) ==
  IF l.final /\ done.summary = "done" /\ done.stats = "done" /\ a.mountedRef
  THEN [a EXCEPT !.loading = FALSE, !.initialLoad = FALSE]
  ELSE a

\* the select of calculateSummary is answered and calculateSummary continues
SummaryResolve(l, fails) ==
  /\ l \in appLoads /\ l.summary = "sent"
  /\ LET done == [l EXCEPT !.summary = "done"]
     IN /\ appLoads' = LoadsAfter(l, done)
        /\ UNCHANGED <<appEvents, appServer>>
        /\ Commit(Finally(l, done,
                    IF SummaryApplies(~fails)
                    THEN [app EXCEPT !.summary = AppSummaryOf(RowsOf(appServer.rows))]
                    ELSE app),
                  appTimers, appSessions, appGhost)
  /\ UNCHANGED AppRest

\* the queries of fetchUserStats are answered and fetchUserStats continues
StatsResolve(l, fails) ==
  /\ l \in appLoads /\ l.stats = "sent"
  /\ LET done == [l EXCEPT !.stats = "done"]
     IN /\ appLoads' = LoadsAfter(l, done)
        /\ UNCHANGED <<appEvents, appServer>>
        /\ Commit(Finally(l, done,
                    IF StatsApply
                    THEN [app EXCEPT !.userStats = StatsOf(~fails, appServer.rows)]
                    ELSE app),
                  appTimers, appSessions, appGhost)
  /\ UNCHANGED AppRest

\* --- the user
\* AuthForm handleSubmit: signInWithPassword succeeded; the auth client has
\* an event for its listeners and handleSubmit goes on to onLogin()
SignIn ==
  /\ AuthFormShown
  /\ appGhost.userActions < MaxUserActions
  /\ appEvents = {}
  /\ appServer' = [appServer EXCEPT !.signedIn = TRUE]
  /\ appEvents' = {[kind |-> "event", session |-> UserSession],
                   [kind |-> "onLogin", session |-> UserSession]}
  /\ Commit(app, appTimers, appSessions,
            [appGhost EXCEPT !.userActions = @ + 1])
  /\ UNCHANGED <<appLoads>>
  /\ UNCHANGED AppRest

\* onLogin={() => setLoading(true)}
OnLogin(e) ==
  /\ e \in appEvents /\ e.kind = "onLogin"
  /\ appEvents' = appEvents \ {e}
  /\ UNCHANGED <<appLoads, appServer>>
  /\ Commit([app EXCEPT !.loading = TRUE], appTimers, appSessions,
            [appGhost EXCEPT !.runsSinceLogin = 0])
  /\ UNCHANGED AppRest

\* the onAuthStateChange listener
AuthStateChange(e) ==
  /\ e \in appEvents /\ e.kind = "event"
  /\ appEvents' = appEvents \ {e}
  /\ UNCHANGED <<appServer>>
  /\ IF ~app.mountedRef \/ e.session = app.currentSessionRef
     THEN /\ appLoads' = appLoads
          /\ Commit(app, appTimers, appSessions, appGhost)
     ELSE IF e.session # NoSession
     THEN /\ appLoads' = appLoads \cup {NewLoad(FALSE)}
          /\ Commit([app EXCEPT !.session = e.session, !.currentSessionRef = e.session],
                    appTimers, appSessions, appGhost)
     ELSE /\ appLoads' = appLoads
          /\ Commit([app EXCEPT !.session = NoSession, !.currentSessionRef = NoSession,
                                !.summary = ZeroSummary, !.userStats = ZeroStats],
                    appTimers, appSessions, appGhost)
  /\ UNCHANGED AppRest

\* handleLogout
HandleLogout ==
  /\ DashboardShown
  /\ appGhost.userActions < MaxUserActions
  /\ appServer' = [appServer EXCEPT !.signedIn = FALSE]
  /\ appEvents' = appEvents \cup {[kind |-> "event", session |-> NoSession]}
  /\ UNCHANGED <<appLoads>>
  /\ Commit([app EXCEPT !.session = NoSession, !.currentSessionRef = NoSession,
                        !.summary = ZeroSummary, !.userStats = ZeroStats],
            appTimers, appSessions, [appGhost EXCEPT !.userActions = @ + 1])
  /\ UNCHANGED AppRest

\* a row saved through the form: handleTransactionSaved
HandleTransactionSaved ==
  /\ DashboardShown
  /\ appGhost.userActions < MaxUserActions
  /\ appServer.rows < MaxAppRows
  /\ appServer' = [appServer EXCEPT !.rows = @ + 1]
  /\ UNCHANGED <<appLoads, appEvents>>
  /\ Commit([app EXCEPT !.refreshTrigger = @ + 1], appTimers, appSessions,
            [appGhost EXCEPT !.userActions = @ + 1])
  /\ UNCHANGED AppRest

\* what a successful delete in TransactionList gives App: the list takes
\* refreshTrigger and onEdit only, so nothing
AppAfterListDelete == app

\* a row, or every row, deleted with success from the list of the dashboard
ListDeleteSucceeds(all) ==
  /\ DashboardShown
  /\ appGhost.userActions < MaxUserActions
  /\ appServer.rows > 0
  /\ appServer' = [appServer EXCEPT !.rows = IF all THEN 0 ELSE @ - 1]
  /\ UNCHANGED <<appLoads, appEvents>>
  /\ Commit(AppAfterListDelete, appTimers, appSessions,
            [appGhost EXCEPT !.unseen = TRUE, !.userActions = @ + 1])
  /\ UNCHANGED AppRest

AppTimersNext ==
  \/ \E t \in appTimers : T800Fires(t)
  \/ \E t \in appTimers : T300Fires(t)
  \/ \E t \in appTimers : RefreshTimerFires(t)

AppAnswersNext ==
  \/ \E l \in appLoads, fails \in BOOLEAN : SummaryResolve(l, fails)
  \/ \E l \in appLoads, fails \in BOOLEAN : StatsResolve(l, fails)
  \/ \E e \in appEvents : OnLogin(e)
  \/ \E e \in appEvents : AuthStateChange(e)

AppNext ==
  \/ AppTimersNext
  \/ AppAnswersNext
  \/ \E q \in appSessions, fails \in BOOLEAN : GetSessionResolve(q, fails)
  \/ SignIn
  \/ HandleLogout
  \/ HandleTransactionSaved
  \/ \E all \in BOOLEAN : ListDeleteSucceeds(all)

\* App over a signed-out server without rows, left alone
AppParked == AppInit({[signedIn |-> FALSE, rows |-> 0]})

\* every page outside the Reports page left alone
PagesParked == StoreParked /\ ListParked /\ AppParked

\* the coordinator of a Reports page that is left alone
CoordParked ==
  /\ CoordInit
  /\ tz = 7
  /\ now = [day |-> FirstDay, hour |-> 3]

Init == CoordInit /\ AggInit({<<>>}) /\ ColorInit({EmptyName}) /\ PagesParked

\* setTransactions(data || []) and the render that follows
LoadTransactions ==
  /\ txList' = stored
  /\ summary' = calculateSummary(stored)
  /\ pieChartData' = PieChartDataOf(stored, chartType, isMobile)
  /\ barChartData' \in getBarChartDataResults(stored)
  /\ UNCHANGED <<stored, chartType, isMobile, appSummary>>
  /\ UNCHANGED <<coordVars, colorVars, pageVars>>

\* the chart-type buttons
setChartType(mode) ==
  /\ chartType' = mode
  /\ pieChartData' = PieChartDataOf(txList, mode, isMobile)
  /\ UNCHANGED <<stored, txList, isMobile, summary, barChartData, appSummary>>
  /\ UNCHANGED <<coordVars, colorVars, pageVars>>

\* checkScreen
checkScreen(width) ==
  /\ isMobile' = (width <= 768)
  /\ pieChartData' = PieChartDataOf(txList, chartType, width <= 768)
  /\ UNCHANGED <<stored, txList, chartType, summary, barChartData, appSummary>>
  /\ UNCHANGED <<coordVars, colorVars, pageVars>>

\* App: calculateSummary(userId); nothing is stored when the query fails
AppCalculateSummary(ok) ==
  /\ appSummary' = IF ok THEN AppSummaryOf(stored) ELSE appSummary
  /\ UNCHANGED <<stored, txList, chartType, isMobile, summary, pieChartData,
                 barChartData>>
  /\ UNCHANGED <<coordVars, colorVars, pageVars>>

AggNext ==
  \/ LoadTransactions
  \/ \E mode \in ChartTypes : setChartType(mode)
  \/ \E width \in ScreenWidths : checkScreen(width)
  \/ \E ok \in BOOLEAN : AppCalculateSummary(ok)

\* a render calls getRandomColor(colorSeed)
CallGetRandomColor ==
  /\ colorPrev' = colorOut
  /\ colorOut' = getRandomColor(colorSeed)
  /\ UNCHANGED colorSeed
  /\ UNCHANGED <<coordVars, aggVars, pageVars>>

ColorNext == CallGetRandomColor

Next ==
  \/ \E type \in {"start", "end"}, value \in EditDates \cup {NoDate} :
        handleDateChange(type, value)
  \/ applyDateFilter
  \/ resetToCurrentMonth
  \/ \E t \in timers : TimerFire(t)
  \/ \E f \in inflight, hasUser \in BOOLEAN : FetchAuthResolve(f, hasUser)
  \/ \E f \in inflight, outcome \in {"data", "error", "throw"} :
        FetchQueryResolve(f, outcome)
  \/ Tick
  \/ AdvanceCalendar

Spec == Init /\ [][Next]_vars

\* the aggregation views over rows as the forms save them
InitAgg == CoordParked /\ AggInit(ValidLists) /\ ColorInit({EmptyName}) /\ PagesParked
SpecAgg == InitAgg /\ [][AggNext]_vars

\* the aggregation views over rows with any amount text
InitAggRaw == CoordParked /\ AggInit(RawLists) /\ ColorInit({EmptyName}) /\ PagesParked
SpecAggRaw == InitAggRaw /\ [][AggNext]_vars

\* getRandomColor over names
InitColor == CoordParked /\ AggInit({<<>>}) /\ ColorInit(Names) /\ PagesParked
SpecColor == InitColor /\ [][ColorNext]_vars

\* the store with the transaction form and the category manager writing to it
InitStore ==
  /\ CoordParked /\ AggInit({<<>>}) /\ ColorInit({EmptyName})
  /\ StoreInit(CmVersions) /\ ListParked /\ AppParked
SpecStore == InitStore /\ [][StoreNext]_vars

\* the transaction list deleting rows of a table
InitList ==
  /\ CoordParked /\ AggInit({<<>>}) /\ ColorInit({EmptyName})
  /\ StoreParked /\ ListInit({RowIds}) /\ AppParked
SpecList == InitList /\ [][ListNext]_vars

\* the servers App may be mounted over
AppServers == [signedIn : BOOLEAN, rows : {0, MaxAppRows}]

\* App with its session, loading gate, summary and stats
InitApp ==
  /\ CoordParked /\ AggInit({<<>>}) /\ ColorInit({EmptyName})
  /\ StoreParked /\ ListParked /\ AppInit(AppServers)
SpecApp == InitApp /\ [][AppNext]_vars

\* a pending timer fires and a pending answer or callback arrives;
\* getSession may stay unanswered and the user may do nothing
AppProgress == AppTimersNext \/ AppAnswersNext

SpecAppLive == InitApp /\ [][AppNext]_vars /\ WF_vars(AppProgress)

\* --------------------------------------------------------------- helpers
KeyOf(r) == FetchKey(r.start, r.end)

SameRange(x, r) == x.start = r.start /\ x.end = r.end

\* the last handler committed a range (CommittedChange: with other dates)
Committed == lastOp \in {"apply", "applySame", "reset", "resetSame"}
CommittedChange == lastOp \in {"apply", "reset"}
WasReset == lastOp \in {"reset", "resetSame"}

\* a fetch ends without data: no user, an error result, or a rejection
FetchFails(f) ==
  \/ FetchAuthResolve(f, FALSE)
  \/ FetchQueryResolve(f, "error")
  \/ FetchQueryResolve(f, "throw")

\* ------------------------------------------------------------------ C1
\* C1 (as stated): every burst of commits ends in exactly one fetch: at most
\* one timer is pending, it is for the last committed range and cannot
\* elapse before DEBOUNCE_TIME has passed since that commit, a fetch in
\* flight is for the committed range, and after a commit a timer is pending.
C1_BurstAlwaysFetches ==
  /\ Cardinality(timers) <= 1
  /\ \A t \in timers : /\ SameRange(t, dateRange)
                       /\ t.remaining + sinceCommit >= DEBOUNCE_TIME
  /\ \A f \in inflight : SameRange(f, dateRange)
  /\ CommittedChange => timers # {}

\* C1 (amended): as above, but after a commit a timer is pending exactly
\* when the committed range's key differs from lastFetchRef; a burst whose
\* last range is the last-fetched one issues no fetch.
C1_TrailingEdgeDebounce ==
  /\ Cardinality(timers) <= 1
  /\ \A t \in timers : /\ SameRange(t, dateRange)
                       /\ t.remaining + sinceCommit >= DEBOUNCE_TIME
  /\ \A f \in inflight : SameRange(f, dateRange)
  /\ Committed => (timers # {} <=> KeyOf(dateRange) # lastFetchRef)

\* a fetch was issued for the third commit of a burst in which the range
\* changed twice
C1_Witness ==
  /\ lastOp = "fire"
  /\ \E f \in inflight : f.burst >= 3 /\ f.moved >= 2 /\ SameRange(f, dateRange)

\* ------------------------------------------------------------------ C2
\* C2: no timer is armed and no fetch is in flight for a range whose key is
\* that of the last fetch that returned data.
C2_NoRefetchOfLastSuccess ==
  /\ \A t \in timers : KeyOf(t) # lastSuccess
  /\ \A f \in inflight : KeyOf(f) # lastSuccess

\* ------------------------------------------------------------------ C3
\* C3: every fetch still in flight was issued after the fetch whose response
\* was applied last, so no earlier response is applied after a later one;
\* when rows have just been loaded they are those of the committed range.
C3_LastRequestWins ==
  /\ \A f \in inflight : f.id > lastApplied
  /\ (lastOp = "loaded" /\ inflight = {}) =>
        transactions = Rows(dateRange.start, dateRange.end)

\* the responses of two successive fetches have been applied
C3_Witness ==
  /\ lastOp = "loaded"
  /\ lastApplied >= 3
  /\ transactions = Rows(dateRange.start, dateRange.end)

\* ------------------------------------------------------------------ C4
\* C4: at most one fetch is in flight; while it is, loading is true, no
\* timer is pending and the committed range is still the fetched one.
C4_SingleFetchInFlight ==
  /\ Cardinality(inflight) <= 1
  /\ \A f \in inflight : /\ loading
                         /\ timers = {}
                         /\ SameRange(f, dateRange)

\* a later fetch (not the mount fetch) is awaiting the query
C4_Witness ==
  \E f \in inflight : f.id >= 2 /\ f.stage = "query" /\ loading

\* ------------------------------------------------------------------ C5
\* C5: a fetch that fails (no user, error result, or rejection) leaves the
\* displayed rows as they were.
C5_FailedFetchKeepsRows ==
  [][\A f \in inflight : FetchFails(f) => transactions' = transactions]_vars

\* ------------------------------------------------------------------ C6
\* C6: after a failed fetch loading is false, no timer is pending and
\* lastFetchRef is not the key of the failed range.
C6_FailedFetchReturnsToIdle ==
  [][\A f \in inflight : FetchFails(f) =>
        /\ ~loading'
        /\ timers' = {}
        /\ lastFetchRef' # KeyOf(f)]_vars

\* ------------------------------------------------------------------ C7
\* exactly one timer is pending, armed just now for the committed range
OneTimerArmed(ts, r) ==
  /\ Cardinality(ts) = 1
  /\ \A t \in ts : SameRange(t, r) /\ t.remaining = DEBOUNCE_TIME

\* C7 (as stated): every reset makes the tentative and the committed range
\* equal and leaves exactly one timer armed for that range, so exactly one
\* fetch follows.
C7_ResetAlwaysFetchesOnce ==
  [][resetToCurrentMonth =>
        /\ tempDateRange' = dateRange'
        /\ inflight' = inflight
        /\ OneTimerArmed(timers', dateRange')]_vars

\* C7 (amended): every reset makes the tentative and the committed range
\* equal to the current-month range, issues no fetch itself, and leaves
\* exactly one timer armed for that range when its key differs from
\* lastFetchRef, and no timer at all when the key equals lastFetchRef.
C7_ResetFetchesOnceUnlessFetched ==
  [][resetToCurrentMonth =>
        /\ tempDateRange' = dateRange'
        /\ dateRange' = CurrentMonthRange(now, tz)
        /\ inflight' = inflight
        /\ IF KeyOf(dateRange') = lastFetchRef
           THEN timers' = {}
           ELSE OneTimerArmed(timers', dateRange')]_vars

\* a reset replaced the pending timer of another range
C7_Witness ==
  /\ lastOp = "reset"
  /\ tempDateRange = dateRange
  /\ \E t \in timers : t.moved >= 1 /\ SameRange(t, dateRange)

\* ------------------------------------------------------------------ C8
\* the current-month range in the user's local calendar
LocalMonthRange(n) == [start |-> MonthStart(MonthOf(n.day)), end |-> n.day]

\* C8: the initial range and every range a reset produces run from the
\* first day of the local month to the local today.
C8_RangeIsLocalMonthToDate ==
  /\ dateRange = LocalMonthRange(now)
  /\ [][resetToCurrentMonth => dateRange' = LocalMonthRange(now)]_vars

\* ------------------------------------------------------------------ C9
\* C9: an edit of a tentative field changes neither the committed range nor
\* the timers, fetchRef, the fetches in flight, loading or lastFetchRef; the
\* committed range changes only in Apply or Reset.
C9_EditTouchesOnlyTentative ==
  [][/\ (\E type \in {"start", "end"}, value \in EditDates \cup {NoDate} :
            handleDateChange(type, value))
        => UNCHANGED <<dateRange, timers, fetchRef, inflight, loading,
                       lastFetchRef, transactions>>
     /\ dateRange' # dateRange => applyDateFilter \/ resetToCurrentMonth]_vars

\* a field was edited while a timer was pending, and the timer still is
C9_Witness ==
  /\ lastOp = "edit"
  /\ tempDateRange # dateRange
  /\ \E t \in timers : t.remaining < DEBOUNCE_TIME /\ SameRange(t, dateRange)

\* ----------------------------------------------------------------- C10
ValidRange(r) ==
  r.start # NoDate /\ r.end # NoDate /\ ParseDate(r.start) <= ParseDate(r.end)

\* C10: the committed range, every armed timer's range and every fetched
\* range have both dates set and start <= end.
C10_CommittedRangeValid ==
  /\ ValidRange(dateRange)
  /\ \A t \in timers : ValidRange(t)
  /\ \A f \in inflight : ValidRange(f)

\* Apply was pressed after the end field was cleared and the start field
\* was moved past the committed end; the committed range is still valid
C10_Witness ==
  /\ lastOp = "applyIgnored"
  /\ tempDateRange.end = NoDate
  /\ tempDateRange.start > dateRange.end
  /\ ValidRange(dateRange)

\* ----------------------------------------------------------------- C11
OtherBound(type) == IF type = "start" THEN "end" ELSE "start"

\* storing value in bound type would leave two set dates with start > end
WouldInvert(r, type, value) ==
  LET e == [r EXCEPT ![type] = value]
  IN /\ e.start # NoDate /\ e.end # NoDate
     /\ ParseDate(e.start) > ParseDate(e.end)

\* C11: every edit of bound b to value v stores v in b; the other bound
\* becomes v when the edit would leave start > end with both dates set, and
\* is unchanged otherwise.
C11_EditStoredAndSnapped ==
  [][\A type \in {"start", "end"}, value \in EditDates \cup {NoDate} :
        handleDateChange(type, value) =>
          /\ tempDateRange'[type] = value
          /\ tempDateRange'[OtherBound(type)] =
               IF WouldInvert(tempDateRange, type, value)
               THEN value
               ELSE tempDateRange[OtherBound(type)]]_vars

\* an edit has just snapped the other bound to the edited value
C11_Witness ==
  /\ lastOp = "editSnap"
  /\ tempDateRange.start = tempDateRange.end
  /\ tempDateRange.start # NoDate
  /\ tempDateRange # dateRange

\* ---------------------------------------------------------------- sums
RECURSIVE AmountSum(_, _)
\* the sum of the amounts of the rows of txs at the positions in S
AmountSum(txs, S) ==
  IF S = {} THEN 0
  ELSE LET i == CHOOSE j \in S : TRUE
       IN txs[i].amount.v + AmountSum(txs, S \ {i})

IncomeRows(txs) == {i \in 1..Len(txs) : txs[i].type = "income"}
OtherRows(txs) == {i \in 1..Len(txs) : txs[i].type # "income"}

\* income, expense and total as the claim defines them
ExpectedSums(txs) ==
  [income |-> Num(AmountSum(txs, IncomeRows(txs))),
   expense |-> Num(AmountSum(txs, OtherRows(txs))),
   total |-> Num(AmountSum(txs, IncomeRows(txs)) - AmountSum(txs, OtherRows(txs)))]

Sums(s) == [income |-> s.income, expense |-> s.expense, total |-> s.total]

\* C12: for every list of rows with non-negative amounts the summary of
\* Reports has income = the sum of the income amounts, expense = the sum of
\* all other amounts and total = income - expense; the dashboard summary of
\* App is the same triple of the rows it read, once it has read them.
C12_TotalIsIncomeMinusExpense ==
  /\ Sums(summary) = ExpectedSums(txList)
  /\ summary.total.v = summary.income.v - summary.expense.v
  /\ appSummary \in {ExpectedSums(<<>>), ExpectedSums(stored)}
  /\ appSummary.total.v = appSummary.income.v - appSummary.expense.v

\* both summaries hold the sums of a list with income and expense rows, and
\* more spent than earned
C12_Witness ==
  /\ txList = stored
  /\ summary.income.v > 0
  /\ summary.expense.v > summary.income.v
  /\ summary.total.v < 0
  /\ appSummary.expense.v > appSummary.income.v
  /\ appSummary.income.v > 0

\* C13: savingsRate is 0 whenever income is 0 and 100 * (income - expense) /
\* income otherwise; for income 1000000 and expenses 300000 and 200000 it
\* is 50.
C13_SavingsRate ==
  LET income == AmountSum(txList, IncomeRows(txList))
      expense == AmountSum(txList, OtherRows(txList))
  IN /\ income = 0 => QuotEq(summary.savingsRate, Quot(0, 1))
     /\ income # 0 =>
          QuotEq(summary.savingsRate, Quot(100 * (income - expense), income))
     /\ (income = 1000000 /\ expense = 300000 + 200000) =>
          QuotEq(summary.savingsRate, Quot(50, 1))

\* the example list is loaded and its rate is 50
C13_Witness ==
  /\ txList = ExampleList
  /\ summary.income = Num(1000000)
  /\ summary.expense = Num(500000)
  /\ QuotEq(summary.savingsRate, Quot(50, 1))

RECURSIVE SeqSum(_)
SeqSum(ns) == IF ns = <<>> THEN 0 ELSE Head(ns) + SeqSum(Tail(ns))

\* C14: for any list of rows, rows without a category included, the totals
\* of the combined-mode buckets add up to income + expense of the summary of
\* the same list.
C14_BucketTotalsMatchSummary ==
  chartType = "combined" =>
    SeqSum([k \in 1..Len(pieChartData) |-> pieChartData[k].total.v])
      = summary.income.v + summary.expense.v

\* the label the breakdowns are to file a row under
LabelOf(t) == IF HasCategory(t) THEN CategoryNameOf(t) ELSE Uncategorized
LabelRows(txs, label) == {j \in 1..Len(txs) : LabelOf(txs[j]) = label}
TypeRows(txs, type) == {j \in 1..Len(txs) : txs[j].type = type}

\* C15: a row with no category association adds its amount and its count to
\* a bucket named "Uncategorized" in the combined buckets, in the single-type
\* buckets of its type and in the top-by-net list.
C15_NoCategoryIsUncategorized ==
  \A i \in 1..Len(txList) :
    ~HasCategory(txList[i]) =>
      LET rows == LabelRows(txList, Uncategorized)
          typed == rows \cap TypeRows(txList, chartType)
      IN /\ chartType = "combined" =>
              \E k \in 1..Len(pieChartData) :
                /\ pieChartData[k].name = Uncategorized
                /\ pieChartData[k].total = Num(AmountSum(txList, rows))
                /\ pieChartData[k].count = Cardinality(rows)
         /\ txList[i].type = chartType =>
              \E k \in 1..Len(pieChartData) :
                /\ pieChartData[k].name = Uncategorized
                /\ pieChartData[k].value = Num(AmountSum(txList, typed))
                /\ pieChartData[k].count = Cardinality(typed)
         /\ \E k \in 1..Len(barChartData) :
              /\ barChartData[k].name = Uncategorized
              /\ barChartData[k].income =
                   Num(AmountSum(txList, rows \cap IncomeRows(txList)))
              /\ barChartData[k].expense =
                   Num(AmountSum(txList, rows \cap OtherRows(txList)))

\* the list with every non-numeric amount replaced by 0
Zeroed(txs) ==
  [i \in 1..Len(txs) |->
     IF txs[i].amount.text THEN [txs[i] EXCEPT !.amount = Amt(0)] ELSE txs[i]]

NameAndValue(items) ==
  [k \in 1..Len(items) |-> [name |-> items[k].name, value |-> items[k].value]]

\* C16: a row whose amount is not numeric adds zero to every aggregate: the
\* summary sums and the bucket totals are those of the list with that amount
\* replaced by 0, and none of them is NaN.
C16_NonNumericCountsZero ==
  /\ Sums(summary) = Sums(calculateSummary(Zeroed(txList)))
  /\ NameAndValue(pieChartData)
       = NameAndValue(PieChartDataOf(Zeroed(txList), chartType, isMobile))
  /\ ~summary.income.nan /\ ~summary.expense.nan /\ ~summary.total.nan
  /\ \A k \in 1..Len(pieChartData) : ~pieChartData[k].value.nan

\* the positive-total buckets of the selected type, largest first
SortedBuckets == TypeBuckets(txList, chartType)
MergeLimit == IF isMobile THEN 5 ELSE 8
Kept == IF isMobile THEN 4 ELSE 7
Merging == chartType # "combined" /\ Len(SortedBuckets) > MergeLimit

ValuesSum(items) == SeqSum([k \in 1..Len(items) |-> items[k].value.v])
CountsSum(items) == SeqSum([k \in 1..Len(items) |-> items[k].count])

\* C17: in single-type mode the buckets are merged exactly when there are
\* more than 8 (5 on a small screen) of them: the output then has 7 + 1
\* (4 + 1) entries, the first 7 (4) being the largest buckets in descending
\* order and the last one named "Other"; otherwise the output is the
\* buckets, nothing added.
C17_OtherMergedPastThreshold ==
  chartType # "combined" =>
    IF Len(SortedBuckets) > MergeLimit
    THEN /\ Len(pieChartData) = Kept + 1
         /\ \A k \in 1..Kept : pieChartData[k] = SortedBuckets[k]
         /\ \A k \in 1..(Kept - 1) :
              pieChartData[k].value.v >= pieChartData[k + 1].value.v
         /\ \A j \in (Kept + 1)..Len(SortedBuckets) :
              SortedBuckets[j].value.v <= pieChartData[Kept].value.v
         /\ pieChartData[Kept + 1].name = Other
    ELSE pieChartData = SortedBuckets

\* small screen, more than 5 buckets: 4 + 1 entries, and "Other" is last
\* although it is larger than every kept bucket
C17_Witness ==
  /\ Merging
  /\ isMobile
  /\ Len(pieChartData) = 5
  /\ pieChartData[5].name = Other
  /\ pieChartData[5].value.v > pieChartData[1].value.v

\* C19: when the buckets are merged, "Other" holds the sum of the values and
\* the sum of the counts of the merged buckets, so values and counts add up
\* to the same over the output as over all buckets before merging.
C19_OtherHoldsMergedSums ==
  Merging =>
    LET merged == SubSeq(SortedBuckets, Kept + 1, Len(SortedBuckets))
        other == pieChartData[Len(pieChartData)]
    IN /\ other.value.v = ValuesSum(merged)
       /\ other.count = CountsSum(merged)
       /\ ValuesSum(pieChartData) = ValuesSum(SortedBuckets)
       /\ CountsSum(pieChartData) = CountsSum(SortedBuckets)

\* 10 income categories on a large screen: 8 entries, the 8th "Other" with
\* more rows than merged buckets
C19_Witness ==
  /\ Merging
  /\ ~isMobile
  /\ chartType = "income"
  /\ Len(SortedBuckets) = 10
  /\ Len(pieChartData) = 8
  /\ pieChartData[8].name = Other
  /\ pieChartData[8].count > 3

\* the rows of the category with this name
CategoryRows(txs, name) ==
  {j \in 1..Len(txs) : HasCategory(txs[j]) /\ CategoryNameOf(txs[j]) = name}

\* C20: in single-type mode only rows of the selected type contribute: each
\* bucket of a category holds the sum of the amounts of the category's rows
\* of that type, every bucket carries the selected type, and a category
\* with rows of the other type only has no bucket.
C20_OnlyMatchingTypeContributes ==
  chartType # "combined" =>
    LET matching == TypeRows(txList, chartType)
        own == IF Merging THEN Kept ELSE Len(pieChartData)
    IN /\ \A k \in 1..Len(pieChartData) : pieChartData[k].type = chartType
       /\ \A k \in 1..own :
            pieChartData[k].value.v =
              AmountSum(txList, CategoryRows(txList, pieChartData[k].name)
                                  \cap matching)
       /\ ValuesSum(pieChartData) =
            AmountSum(txList, {j \in matching : HasCategory(txList[j])})
       /\ \A j \in 1..Len(txList) :
            (/\ HasCategory(txList[j])
             /\ CategoryRows(txList, CategoryNameOf(txList[j])) \cap matching = {})
            => ~\E k \in 1..Len(pieChartData) :
                  pieChartData[k].name = CategoryNameOf(txList[j])

\* income mode over a list with a category that has expense rows only and
\* a category that has both
C20_Witness ==
  /\ chartType = "income"
  /\ Len(pieChartData) = 1
  /\ \E j \in 1..Len(txList) :
       /\ HasCategory(txList[j])
       /\ txList[j].type = "expense"
       /\ CategoryNameOf(txList[j]) = pieChartData[1].name
  /\ \E j \in 1..Len(txList) :
       /\ HasCategory(txList[j])
       /\ CategoryRows(txList, CategoryNameOf(txList[j]))
            \cap TypeRows(txList, "income") = {}

PaletteColors == {Palette[k] : k \in 1..Len(Palette)}
SeedHash == HashOf(colorSeed, Len(colorSeed))

\* C18: getRandomColor is a deterministic total function of the name: for
\* every name, the empty one and those whose hash is negative or outside
\* 32 bits included, |hash| mod 10 is within 0..9, the result is one of the
\* 10 palette entries, and every call returns the same entry.
C18_ColorInPaletteAndStable ==
  /\ Len(Palette) = 10
  /\ JsRem(AbsLimbs(SeedHash), 10) \in 0..9
  /\ colorOut # NoColor => colorOut \in PaletteColors
  /\ colorPrev # NoColor => colorPrev = colorOut

\* two calls for a name whose hash is negative and below -2^31
C18_Witness ==
  /\ Len(colorSeed) = 5
  /\ SeedHash.hi < -HalfWord
  /\ colorPrev \in PaletteColors
  /\ colorPrev = colorOut

\* the category buckets before any "Other" entry
BucketsBeforeOther ==
  IF chartType = "combined" THEN pieChartData ELSE SortedBuckets

SetMin(S) == CHOOSE m \in S : \A n \in S : m <= n

\* the first row of the category in the list
FirstRow(name) == SetMin(CategoryRows(txList, name))

\* the first row of the category that the mode collects
FirstCollectedRow(name) ==
  IF chartType = "combined" THEN FirstRow(name)
  ELSE SetMin(CategoryRows(txList, name) \cap TypeRows(txList, chartType))

SortedNoZero(items) ==
  /\ \A k \in 1..Len(items) : items[k].value.v > 0
  /\ \A k \in 1..(Len(items) - 1) : items[k].value.v >= items[k + 1].value.v

\* C21 as stated: the buckets of combined and of single-type mode are in
\* non-increasing order of total, none has total 0, and buckets with equal
\* totals are in the order in which their category first occurs in the list.
C21_TiesInListOrder ==
  /\ SortedNoZero(BucketsBeforeOther)
  /\ \A k \in 1..(Len(BucketsBeforeOther) - 1) :
       BucketsBeforeOther[k].value = BucketsBeforeOther[k + 1].value =>
         FirstRow(BucketsBeforeOther[k].name)
           < FirstRow(BucketsBeforeOther[k + 1].name)

\* C21 amended: as above, but buckets with equal totals are in the order of
\* the first row of their category that the mode collects (in single-type
\* mode: its first row of the selected type).
C21_TiesInCollectedOrder ==
  /\ SortedNoZero(BucketsBeforeOther)
  /\ \A k \in 1..(Len(BucketsBeforeOther) - 1) :
       BucketsBeforeOther[k].value = BucketsBeforeOther[k + 1].value =>
         FirstCollectedRow(BucketsBeforeOther[k].name)
           < FirstCollectedRow(BucketsBeforeOther[k + 1].name)

\* single-type mode, two buckets with equal totals, and the second one's
\* category occurs first in the list, with a row of the other type
C21_Witness ==
  /\ chartType # "combined"
  /\ Len(pieChartData) = 2
  /\ pieChartData[1].value = pieChartData[2].value
  /\ FirstRow(pieChartData[2].name) < FirstRow(pieChartData[1].name)
  /\ FirstCollectedRow(pieChartData[1].name)
       < FirstCollectedRow(pieChartData[2].name)

Abs(n) == IF n < 0 THEN -n ELSE n

\* the names of the categories of the list
CategoryNames(txs) ==
  {CategoryNameOf(txs[j]) : j \in {i \in 1..Len(txs) : HasCategory(txs[i])}}

\* income - expense of the rows of a category
NetOf(txs, name) ==
  AmountSum(txs, CategoryRows(txs, name) \cap IncomeRows(txs))
    - AmountSum(txs, CategoryRows(txs, name) \cap OtherRows(txs))

BarNames == {barChartData[k].name : k \in 1..Len(barChartData)}

\* C22: the top-categories-by-net list has at most 8 entries, each with
\* net = income - expense of its category, in non-increasing order of |net|,
\* and every category left out has an |net| no greater than that of every
\* category included.
C22_TopEightByAbsoluteNet ==
  /\ Len(barChartData) <= 8
  /\ \A k \in 1..Len(barChartData) :
       /\ barChartData[k].name \in CategoryNames(txList)
       /\ barChartData[k].net.v = NetOf(txList, barChartData[k].name)
       /\ barChartData[k].net.v
            = barChartData[k].income.v - barChartData[k].expense.v
  /\ \A k \in 1..(Len(barChartData) - 1) :
       Abs(barChartData[k].net.v) >= Abs(barChartData[k + 1].net.v)
  /\ \A name \in CategoryNames(txList) \ BarNames :
       \A k \in 1..Len(barChartData) :
         Abs(NetOf(txList, name)) <= Abs(barChartData[k].net.v)

\* 10 categories with nets of both signs: 8 are listed and 2 are left out
C22_Witness ==
  /\ Cardinality(CategoryNames(txList)) = 10
  /\ Len(barChartData) = 8
  /\ Cardinality(CategoryNames(txList) \ BarNames) = 2
  /\ \E k \in 1..8 : barChartData[k].net.v < 0
  /\ \E k \in 1..8 : barChartData[k].net.v > 0
  /\ Abs(barChartData[1].net.v) > Abs(barChartData[8].net.v)

TypeOK ==
  /\ loading \in BOOLEAN
  /\ sameRef \in BOOLEAN
  /\ fetchRef \in 0..MaxTimers + 1
  /\ \A t \in timers : t.remaining \in 0..DEBOUNCE_TIME

\* --------------------------------------------------------------- C23
\* C23: after any sequence of transaction saves through the form and category
\* saves through the category manager, every row of the transactions table
\* that references a category of the categories table has that category's type.
C23_RowTypeMatchesCategory ==
  \A t \in TxIds :
    (txTable[t].live /\ txTable[t].cat # NoCat /\ catTable[txTable[t].cat].state = "live")
      => txTable[t].type = catTable[txTable[t].cat].type

\* --------------------------------------------------------------- C29
\* what the step that issues the category delete may rely on
DeleteIssued == cmDel.phase = "served" /\ cmDel'.phase = "deleting"

\* C29: the manager issues a category delete only if no row references the
\* category at the time the delete is issued, and never when the usage check
\* failed; so no row ever references a deleted category.
C29_DeleteOnlyUnreferenced ==
  [][DeleteIssued => (RowsOfCategory(cmDel.cat) = {} /\ cmDel.result # "error")]_vars


\* --------------------------------------------------------------- C24
\* a handleDelete call in which the user declined the confirm dialog
DeleteDeclined ==
  /\ listLast'.op = "handleDelete" /\ ~listLast'.confirmed
  /\ listLast' # listLast

\* the handleDelete calls that finish in this step
FinishedDeletes == {c \in delCalls \ delCalls' : c.kind = "one" /\ c.phase # "sent"}

\* the delete requests for one row sent in this step
SentDeletes ==
  {c \in delCalls' : c.kind = "one" /\ \A d \in delCalls : d.call # c.call}

OtherDeleteWaiting == \E c \in delCalls : c.kind = "one"

\* C24: handleDelete sends no delete request unless the user confirms (a
\* declined call changes nothing, and isDeleting is null after it unless
\* another delete is waiting); when the delete failed the displayed list is
\* unchanged and the failure notice is shown; when a confirmed call finishes,
\* with either answer, isDeleting is null.
C24_DeleteHandler ==
  [][/\ DeleteDeclined =>
          /\ delCalls' = delCalls /\ rowTable' = rowTable /\ listed' = listed
          /\ isDeleting' = isDeleting
          /\ ~OtherDeleteWaiting => isDeleting' = NoRow
     /\ SentDeletes # {} =>
          listLast'.op = "handleDelete" /\ listLast'.confirmed
     /\ \A c \in FinishedDeletes :
          /\ isDeleting' = NoRow
          /\ c.phase = "error" =>
               listed' = listed /\ listLast'.alert = DeleteFailedNotice]_vars

\* a delete failed and its handler has finished
C24_Witness ==
  /\ listLast.op = "deleteDone" /\ listLast.alert = DeleteFailedNotice
  /\ listLast.id \in listed
  /\ isDeleting = NoRow

\* --------------------------------------------------------------- C25
\* the checkRemainingTransactions calls that finish in this step
FinishedReconciles == {r \in reconciles \ reconciles' : r.phase = "served"}

\* C25: the check made 500 ms after a successful delete calls
\* fetchTransactions only when the number of rows in the store differs from
\* the number of rows displayed; no other writer changes the table here, so
\* it never calls it.
C25_RefetchOnlyOnMismatch ==
  [][\A r \in FinishedReconciles :
       listLast'.refetch => (r.ok /\ r.count # Cardinality(listed))]_vars

\* --------------------------------------------------------------- C30
\* the handleDelete calls for a row that wait for the store or for their answer
DeletesInFlight(id) == {c \in delCalls : c.kind = "one" /\ c.id = id}

\* C30: while a delete for a row is in flight isDeleting is that row, so its
\* Edit and Delete buttons are disabled, and no second delete for the row is
\* in flight.
C30_DisabledWhileInFlight ==
  \A id \in RowIds :
    DeletesInFlight(id) # {} =>
      /\ isDeleting = id
      /\ Cardinality(DeletesInFlight(id)) = 1


\* --------------------------------------------------------------- C26
\* C26: after a delete from the list of the dashboard succeeded, the summary
\* and the transaction count of the dashboard are eventually computed again
\* from the rows that are left, with no further action of the user.
C26_RecomputedAfterDelete == appGhost.unseen ~> ~appGhost.unseen

\* --------------------------------------------------------------- C27
\* C27: whenever there is no session the summary is {0, 0, 0} and the user
\* stats are all 0, also when summary or stats requests were in flight at
\* logout and are answered after it.
C27_ZeroWithoutSession ==
  app.session = NoSession =>
    app.summary = ZeroSummary /\ app.userStats = ZeroStats

\* --------------------------------------------------------------- C28
\* the onLogin callback of AuthForm runs in this step
OnLoginStep == \E e \in appEvents \ appEvents' : e.kind = "onLogin"

\* C28: App eventually leaves the loading screen, also when getSession is
\* never answered or fails; the loading screen comes back only with a login;
\* and the session effect, which runs again when loading changes, runs at
\* most twice after the mount and after each login (once for loading = true
\* and once for loading = false).
C28_LeavesLoadingScreen ==
  /\ LoadingScreen ~> ~LoadingScreen
  /\ [][(~LoadingScreen /\ LoadingScreen') => OnLoginStep]_vars
  /\ [](appGhost.runsSinceLogin <= 2)

\* the loading screen is gone while the first getSession is still unanswered
C28_Witness ==
  /\ ~LoadingScreen
  /\ [run |-> 1] \in appSessions
  /\ appGhost.runsSinceLogin = 2

====
